---- MODULE Spec2Model ----
(***************************************************************************)
(* A model of the photomosaic engine of imagecollagemaker.py: the grid     *)
(* planner (calc_grid_size), the assignment solvers (solve_lap,            *)
(* solve_lap_greedy), the fair pipeline (MosaicFair, dup_to_meet_total),   *)
(* the unfair pipeline (MosaicUnfair.process_dest_img) and the CPU         *)
(* multi-process video pipeline (main, frame_process, frame_generator).    *)
(*                                                                         *)
(* Every component has its own specification (GridSpec, LapSpec,           *)
(* GreedySpec, FairSpec, UnfairSpec, VideoSpec and, with fairness,         *)
(* VideoFairSpec); a component that a specification does not run stays in  *)
(* its idle state.  Pictures are                                           *)
(* abstracted to one number per tile / destination block (the flattened    *)
(* feature vector of length one); real numbers are kept exact as scaled    *)
(* integers or as numerator/denominator pairs.                             *)
(***************************************************************************)
EXTENDS Integers, Sequences, FiniteSets, TLC

VARIABLES
    \* ---- calc_grid_size
    gpc,            \* "idle" | "call" | "returned" | "raised"
    gin,            \* the arguments [rw, rh, num_imgs, th, tw]
    grid,           \* the returned grid <<width, height>>
    \* ---- solve_lap / solve_lap_greedy
    lpc,            \* "idle" | "call" | "scan" | "returned"
    cost_matrix,    \* [rows -> [cols -> cost]], 0-based like the numpy array
    lap_n,          \* cost_matrix.shape[0]
    lap_cols,       \* the returned assignment (cols of lapjv / col_assigned)
    lap_cost,       \* the printed "Total assignment cost"
    row_assigned,   \* solve_lap_greedy: row -> column or -1
    col_assigned,   \* solve_lap_greedy: column -> row or -1
    scanned,        \* solve_lap_greedy: the flat indices the scan has passed
    pbar_n,         \* solve_lap_greedy: pbar.n
    \* ---- MosaicFair
    fpc,            \* "idle" | "new" | "ready" | "done" | "raised"
    fin,            \* the run's inputs: tiles, dup, destination and tile shape, pictures
    imgs,           \* self.imgs: the tile list, each entry the number of its source tile
    fgrid,          \* self.grid
    block_size,     \* <<self.block_width, self.block_height>>
    fassign,        \* the assignment returned by solve_lap: cell -> index into imgs
    tile_info,      \* the ledger returned with the mosaic: one label per cell
    \* ---- MosaicUnfair
    upc,            \* "idle" | "new" | "ready" | the loop being run | "finish" | "done" |
                    \* "init_raised" | "raised" | "spin" (a loop that never ends)
    uin,            \* the run's inputs: tiles, max_width, shapes, pictures, options, LIMIT
    ugrid,          \* self.grid = (max_width, rows)
    ublock,         \* <<self.block_width, self.block_height>>
    row_stride,     \* self.row_stride
    randomize,      \* self.randomize
    dest_img,       \* the flat destination blocks, block -> feature (in 1/DitherUnit)
    assignment,     \* block -> tile index, Unset where cp.empty left it unwritten
    indices_freq,   \* tile -> freq_mul times its uses so far (in halves)
    indices,        \* _indices: the order the blocks are visited in
    ui,             \* the loop variable i
    uj,             \* the loop variable j
    uledger,        \* the ledger returned by make_photomosaic
    visited,        \* the blocks in the order assignment was written for them
    \* ---- CachedCDist with the cityblock / chebyshev metric: _other
    kpc,            \* "idle" | "new" | "ready" | "loop" | "returned" | "spin"
    kin,            \* the call: rows of A, tiles, pictures, metric, LIMIT
    k_stride,       \* the row_stride CachedCDist.__init__ computes
    k_i,            \* _other's variable i
    dist_mat,       \* row -> tile -> distance, Unset where cp.empty left it unwritten
    kwrites,        \* row -> the number of times the row of dist_mat was written
    \* ---- the CPU video pipeline: main and the frame_process workers
    vpc,            \* main: "idle" | "start" | "feed" | "poll" | "drain" | "sentinels" |
                    \* "join" | "done"
    vin,            \* the run: frames in the video, skip_frame, num_process, failing frames
    gen_i,          \* frame_generator: the number of the next video frame it looks at
    enum_n,         \* enumerate(frames_gen): the next index
    vi,             \* main's variable i
    vp,             \* main's place in "for p in processes"
    in_q,           \* in_q: the (i, frame) items and sentinels not yet taken
    out_q,          \* out_q: the completed indices not yet taken
    vpbar_n,        \* the frame progress bar's pbar.n
    wpc,            \* worker -> "unstarted" | "get" | "work" | "save" | "exited" | "crashed"
    whold,          \* worker -> the item it took from in_q
    files,          \* the files written: [path, frame, by]
    nwrites,        \* the number of save_img calls made
    put_log,        \* every (i, frame) main has put on in_q, in order
    \* ---- make_collage / make_collage_helper
    cpc,            \* "idle" | "new" | "done" | "raised"
    cin,            \* the call: grid, the tiles handed over, rev, masked, the kept cells
    sorted_imgs,    \* the list sorted_imgs as the call leaves it
    note,           \* the printed "Note: ..." as <<what, count>>, <<>> when none is printed
    combined_img,   \* cell -> what the cell of the canvas holds
    info_text,      \* the returned text: [dim, labels]
    \* ---- main, from its first line to the mosaic of a destination picture or video
    mpc,            \* "idle" | "start" | "limit" | "checked" | "read" | "opened" | "built" |
                    \* "done" | "rejected" (an assert failed) | "raised"
    args,           \* the command line
    LIMIT,          \* the global LIMIT, in bytes
    mlog,           \* what main has done so far: "read_images", "grid", "cdist"
    mos,            \* the options of the MosaicUnfair main built, <<>> when it built none
    \* ---- calc_salient_col_even
    spc,            \* "idle" | "new" | "loop" | "mapped" | "done" | "raised"
    sin,            \* the call: destination height and width, tiles, dup, tile shape, map
    s_total,        \* total = round(len(imgs) * dup)
    s_grid,         \* grid = calc_grid_size(...)
    bw_f,           \* bw_f, in 1/SalientDen
    bh_f,           \* bh_f, in 1/SalientDen
    bw_delta,       \* bw_delta, in 1/SalientDen
    bh_delta,       \* bh_delta, in 1/SalientDen
    s_block,        \* <<block_width, block_height>>
    s_count,        \* len(ridx): the number of cells compute_block_map selected
    s_warned,       \* the "Salient area is too small" warning was printed
    s_imgs,         \* imgs: the copy of the tile pool
    s_mosgrid,      \* mos.grid
    s_iter,         \* the number of times the loop subtracted the deltas
    \* ---- main's sequential video loop (--gpu)
    seq_pc,         \* "idle" | "loop" | "done" | "raised"
    seq_gen_i,      \* frame_generator's i: the number of the frame it holds
    seq_idx,        \* enumerate's idx of the next frame
    seq_files       \* the files save_img has written

gvars == <<gpc, gin, grid>>
lvars == <<lpc, cost_matrix, lap_n, lap_cols, lap_cost, row_assigned, col_assigned,
          scanned, pbar_n>>
fvars == <<fpc, fin, imgs, fgrid, block_size, fassign, tile_info>>
uvars == <<upc, uin, ugrid, ublock, row_stride, randomize, dest_img, assignment,
          indices_freq, indices, ui, uj, uledger, visited>>
vvars == <<vpc, vin, gen_i, enum_n, vi, vp, in_q, out_q, vpbar_n, wpc, whold, files, nwrites,
          put_log>>
kvars == <<kpc, kin, k_stride, k_i, dist_mat, kwrites>>
cvars == <<cpc, cin, sorted_imgs, note, combined_img, info_text>>
mvars == <<mpc, args, LIMIT, mlog, mos>>
svars == <<spc, sin, s_total, s_grid, bw_f, bh_f, bw_delta, bh_delta, s_block, s_count,
          s_warned, s_imgs, s_mosgrid, s_iter>>
seqvars == <<seq_pc, seq_gen_i, seq_idx, seq_files>>
vars == <<gvars, lvars, fvars, uvars, vvars, kvars, cvars, mvars, svars, seqvars>>

\* what the actions of one component leave alone
notGrid == <<lvars, fvars, uvars, vvars, kvars, cvars, mvars, svars, seqvars>>
notLap == <<gvars, fvars, uvars, vvars, kvars, cvars, mvars, svars, seqvars>>
notFair == <<gvars, lvars, uvars, vvars, kvars, cvars, mvars, svars, seqvars>>
notUnfair == <<gvars, lvars, fvars, vvars, kvars, cvars, mvars, svars, seqvars>>
notVideo == <<gvars, lvars, fvars, uvars, kvars, cvars, mvars, svars, seqvars>>
notKernel == <<gvars, lvars, fvars, uvars, vvars, cvars, mvars, svars, seqvars>>
notCollage == <<gvars, lvars, fvars, uvars, vvars, kvars, mvars, svars, seqvars>>
notMain == <<gvars, lvars, fvars, uvars, vvars, kvars, cvars, svars, seqvars>>
notSalient == <<gvars, lvars, fvars, uvars, vvars, kvars, cvars, mvars, seqvars>>
notSeq == <<gvars, lvars, fvars, uvars, kvars, cvars, mvars, svars>>

-----------------------------------------------------------------------------
(* Arithmetic helpers *)

Abs(x) == IF x < 0 THEN -x ELSE x

\* math.ceil(a / b) for a >= 0, b > 0
Ceil(a, b) == (a + b - 1) \div b

\* Python's round(p / q) for p >= 0, q > 0: to nearest, a tie going to the even one
Round(p, q) ==
    LET f == (2 * p + q) \div (2 * q)
    IN  IF (2 * p + q) % (2 * q) = 0 /\ f % 2 = 1 THEN f - 1 ELSE f

RECURSIVE SumTo(_, _)
\* sum of f[0] .. f[n-1]
SumTo(f, n) == IF n = 0 THEN 0 ELSE SumTo(f, n - 1) + f[n - 1]

-----------------------------------------------------------------------------
(* GridPlanner: calc_grid_size *)

MaxSlots == 6       \* num_imgs ranges over 1..MaxSlots
MaxRatio == 3       \* rw, rh range over 1..MaxRatio
MaxTileDim == 2     \* th, tw range over 1..MaxTileDim

\* the list possible_wh: one (ratio, width, height) per width in range(1, num_imgs);
\* the ratio width*tw / (th*height) is kept as the pair num/den
possible_wh(num_imgs, th, tw) ==
    [k \in 1..(num_imgs - 1) |->
        LET height == Ceil(num_imgs, k)
        IN  [num |-> k * tw, den |-> th * height, width |-> k, height |-> height]]

\* the key of min(): (x[0] - dest_ratio) ** 2 for x[0] = num/den, dest_ratio = rw/rh,
\* as the pair <<|num*rh - rw*den|, den*rh>>; squaring keeps the order of these
DevNum_Swapped(num, den, rw, rh) == Abs(num * rw - rh * den)
DevNum(num, den, rw, rh) == Abs(num * rh - rw * den)
DevDen(den, rh) == den * rh

\* (a.num/a.den - rw/rh)^2 < (b.num/b.den - rw/rh)^2
DevLess(a, b, rw, rh) ==
    DevNum(a.num, a.den, rw, rh) * DevDen(b.den, rh)
        < DevNum(b.num, b.den, rw, rh) * DevDen(a.den, rh)

\* min(seq, key=...): the first element no other element is smaller than;
\* min() of an empty list raises ValueError
calc_grid_size(rw, rh, num_imgs, th, tw) ==
    LET cands == possible_wh(num_imgs, th, tw)
        n == Len(cands)
    IN  IF n = 0
        THEN [raised |-> TRUE, grid |-> <<0, 0>>]
        ELSE LET best == CHOOSE i \in 1..n :
                            /\ \A j \in 1..n : ~DevLess(cands[j], cands[i], rw, rh)
                            /\ \A j \in 1..(i - 1) : DevLess(cands[i], cands[j], rw, rh)
             IN  [raised |-> FALSE, grid |-> <<cands[best].width, cands[best].height>>]

GridIdle ==
    /\ gpc = "idle"
    /\ gin = [rw |-> 1, rh |-> 1, num_imgs |-> 1, th |-> 1, tw |-> 1]
    /\ grid = <<0, 0>>

\* a call for 12 slots, tiles of 10 x 10 pixels and the ratio 4:3
TwelveSlots == [rw |-> 4, rh |-> 3, num_imgs |-> 12, th |-> 10, tw |-> 10]

GridInit ==
    /\ gpc = "call"
    /\ gin \in [rw : 1..MaxRatio, rh : 1..MaxRatio, num_imgs : 1..MaxSlots,
                th : 1..MaxTileDim, tw : 1..MaxTileDim] \cup {TwelveSlots}
    /\ grid = <<0, 0>>

CalcGridSize ==
    /\ gpc = "call"
    /\ LET r == calc_grid_size(gin.rw, gin.rh, gin.num_imgs, gin.th, gin.tw)
       IN  /\ gpc' = IF r.raised THEN "raised" ELSE "returned"
           /\ grid' = r.grid
    /\ UNCHANGED <<gin, notGrid>>

GridNext == CalcGridSize

-----------------------------------------------------------------------------
(* AssignmentSolver: solve_lap (lapjv) and solve_lap_greedy *)

MaxLapN == 3            \* cost matrices are n x n for n in 1..MaxLapN
LapCosts == {0, 1}   \* the entries of a cost matrix

\* the bijections of 0..n-1, as functions
Perms(n) == {p \in [0..(n - 1) -> 0..(n - 1)] : \A i, j \in 0..(n - 1) : p[i] = p[j] => i = j}

Inverse(p, n) == [j \in 0..(n - 1) |-> CHOOSE i \in 0..(n - 1) : p[i] = j]

\* sum of M[i][p[i]] over the rows i
RowAssignCost(M, p, n) == SumTo([i \in 0..(n - 1) |-> M[i][p[i]]], n)

\* the lapjv library (Jonker-Volgenant): every result it can return for M, as
\* (row_ind, col_ind, (cost, ...)): row_ind[i] is the column of row i, col_ind its
\* inverse, and the assignment is one of minimum total cost
lapjv(M, n) ==
    LET all == Perms(n)
        costs == {RowAssignCost(M, p, n) : p \in all}
        least == CHOOSE c \in costs : \A d \in costs : c <= d
        best == {p \in all : RowAssignCost(M, p, n) = least}
    IN  {[rows |-> p, cols |-> Inverse(p, n), cost |-> <<RowAssignCost(M, p, n)>>] : p \in best}

solve_lap_rows(M, n) ==
    {[cols |-> r.rows, cost |-> r.cost[1]] : r \in lapjv(M, n)}

\* _, cols, cost = lapjv(cost_matrix); cost = cost[0]; print cost; return cols
solve_lap(M, n) ==
    {[cols |-> r.cols, cost |-> r.cost[1]] : r \in lapjv(M, n)}

LapIdle ==
    /\ lpc = "idle"
    /\ cost_matrix = <<>>
    /\ lap_n = 0
    /\ lap_cols = <<>>
    /\ lap_cost = 0
    /\ row_assigned = <<>>
    /\ col_assigned = <<>>
    /\ scanned = {}
    /\ pbar_n = 0

LapInit ==
    /\ lpc = "call"
    /\ lap_n \in 1..MaxLapN
    /\ cost_matrix \in [0..(lap_n - 1) -> [0..(lap_n - 1) -> LapCosts]]
    /\ lap_cols = <<>>
    /\ lap_cost = 0
    /\ row_assigned = <<>>
    /\ col_assigned = <<>>
    /\ scanned = {}
    /\ pbar_n = 0

SolveLap ==
    /\ lpc = "call"
    /\ \E r \in solve_lap(cost_matrix, lap_n) :
          /\ lap_cols' = r.cols
          /\ lap_cost' = r.cost
    /\ lpc' = "returned"
    /\ UNCHANGED <<cost_matrix, lap_n, row_assigned, col_assigned, scanned, pbar_n, notLap>>

LapNext == SolveLap

\* ---- solve_lap_greedy

\* np.unravel_index of a flat index
FlatRow(f, n) == f \div n
FlatCol(f, n) == f % n

GreedyFree_RowOnly(ra, ca, ridx, cidx) == ra[ridx] = -1

\* if row_assigned[ridx] == -1 and col_assigned[cidx] == -1
GreedyFree(ra, ca, ridx, cidx) == ra[ridx] = -1 /\ ca[cidx] = -1

\* the entry of the flattened matrix
FlatCost(M, f, n) == M[FlatRow(f, n)][FlatCol(f, n)]

\* the flat indices that can come next in np.argsort(cost_matrix, axis=None), the
\* ones in `done` having come already: argsort's default sort is not stable, so
\* equal costs come in any order
argsort_next(M, n, done) ==
    {f \in (0..(n * n - 1)) \ done :
        \A g \in (0..(n * n - 1)) \ done : FlatCost(M, f, n) <= FlatCost(M, g, n)}

\* row_idx, col_idx = unravel_index(argsort(...)); cost = 0; row_assigned and
\* col_assigned filled with -1; pbar.n = 0
GreedyStart ==
    /\ lpc = "call"
    /\ lpc' = "scan"
    /\ row_assigned' = [i \in 0..(lap_n - 1) |-> -1]
    /\ col_assigned' = [i \in 0..(lap_n - 1) |-> -1]
    /\ lap_cost' = 0
    /\ scanned' = {}
    /\ pbar_n' = 0
    /\ UNCHANGED <<cost_matrix, lap_n, lap_cols, notLap>>

\* one iteration of "for ridx, cidx in zip(row_idx, col_idx)", with the return that
\* follows the break or the end of the list
GreedyScan ==
    /\ lpc = "scan"
    /\ \E f \in argsort_next(cost_matrix, lap_n, scanned) :
          LET ridx == FlatRow(f, lap_n)
              cidx == FlatCol(f, lap_n)
              take == GreedyFree(row_assigned, col_assigned, ridx, cidx)
              ca == IF take THEN [col_assigned EXCEPT ![cidx] = ridx] ELSE col_assigned
              pn == IF take THEN pbar_n + 1 ELSE pbar_n
              stop == (take /\ pn = lap_n) \/ scanned \cup {f} = 0..(lap_n * lap_n - 1)
          IN  /\ scanned' = scanned \cup {f}
              /\ row_assigned' = IF take THEN [row_assigned EXCEPT ![ridx] = cidx]
                                 ELSE row_assigned
              /\ col_assigned' = ca
              /\ lap_cost' = IF take THEN lap_cost + cost_matrix[ridx][cidx] ELSE lap_cost
              /\ pbar_n' = pn
              /\ lpc' = IF stop THEN "returned" ELSE "scan"
              /\ lap_cols' = IF stop THEN ca ELSE lap_cols
    /\ UNCHANGED <<cost_matrix, lap_n, notLap>>

GreedyNext == GreedyStart \/ GreedyScan

-----------------------------------------------------------------------------
(* Fair mode: MosaicFair, dup_to_meet_total, compute_block_size, the ledger *)

MaxTiles == 5       \* the tile pool holds 1..MaxTiles pictures
DestUnit == 12      \* destination pictures are DestUnit*a by DestUnit*b pixels
DupChoices == {<<1, 2>>, <<1, 1>>, <<3, 2>>, <<2, 1>>}   \* --dup, as num/den

\* a Python list of n entries as a sequence: list index k is sequence index k + 1
Repeat(seq, times) == [k \in 1..(Len(seq) * times) |-> seq[((k - 1) % Len(seq)) + 1]]

dup_to_meet_total_no_rest(tiles, total) ==
    LET orig_len == Len(tiles)
    IN  IF total < orig_len THEN SubSeq(tiles, 1, total)
        ELSE Repeat(tiles, total \div orig_len)

dup_to_meet_total_first_again(tiles, total) ==
    LET orig_len == Len(tiles)
        full == Repeat(tiles, total \div orig_len)
    IN  IF total < orig_len THEN SubSeq(tiles, 1, total)
        ELSE full \o [k \in 1..(total % orig_len) |-> tiles[1]]

\* del imgs[total:] when total < len(imgs); else imgs *= full_count and
\* imgs.extend(imgs[:remaining])
dup_to_meet_total(tiles, total) ==
    LET orig_len == Len(tiles)
        full_count == total \div orig_len
        remaining == total % orig_len
        full == Repeat(tiles, full_count)
    IN  IF total < orig_len THEN SubSeq(tiles, 1, total)
        ELSE IF remaining > 0 THEN full \o SubSeq(full, 1, remaining)
        ELSE full

\* compute_block_size: <<block_width, block_height>> for a destination of dh x dw
\* pixels, a grid g and tiles of th x tw pixels; m = max(tw/bw, th/bh) is kept exact
compute_block_size(dh, dw, g, th, tw) ==
    LET bh == Round(dh, g[2])
        bw == Round(dw, g[1])
    IN  IF bw > tw \/ bh > th
        THEN IF tw * bh >= th * bw      \* tw/bw >= th/bh, so m = tw/bw
             THEN <<(bw * tw) \div bw, (bh * tw) \div bw>>
             ELSE <<(bw * th) \div bh, (bh * th) \div bh>>
        ELSE <<bw, bh>>

\* the label (file path) of source tile s, as its characters: all tiles are read
\* from one directory
TileLabel(s) == <<"t", "/", <<"0", "1", "2", "3", "4", "5", "6", "7", "8", "9">>[s + 1]>>

\* tile_info = np.full(grid, "background", dtype=str): an array of dtype '<U1',
\* which keeps the first character of what is stored in it
StoreU1(label) == SubSeq(label, 1, 1)

\* the feature (one number) of source tile s and of destination block c
TileKey(kind, s) == IF kind = "flat" THEN 0 ELSE s
DestBlock(kind, c) == IF kind = "flat" THEN 0 ELSE IF kind = "ramp" THEN c ELSE (c * 3) % 5

\* cdist(dest).T for the euclidean metric (fast_sq_euclidean, the squared
\* distance): rows are the entries of imgs, columns the destination blocks
FairCostMatrix(tiles, total, kkind, dkind) ==
    [i \in 0..(total - 1) |-> [c \in 0..(total - 1) |->
        (TileKey(kkind, tiles[i + 1]) - DestBlock(dkind, c)) * (TileKey(kkind, tiles[i + 1]) - DestBlock(dkind, c))]]

\* the place of entry k of f (a function on 0..n-1) when f is sorted, equal
\* entries keeping their order
RankIn(f, k, n) == Cardinality({j \in 0..(n - 1) : f[j] < f[k] \/ (f[j] = f[k] /\ j < k)})

\* solve_lap on FairCostMatrix: with one number per picture the squared distances
\* make pairing the sorted tiles with the sorted blocks an assignment of minimum
\* total cost, which is what lapjv returns; cols[c] is the entry of imgs for block c
solve_lap_sorted(tiles, total, kkind, dkind) ==
    LET keys == [i \in 0..(total - 1) |-> TileKey(kkind, tiles[i + 1])]
        dest == [c \in 0..(total - 1) |-> DestBlock(dkind, c)]
    IN  [c \in 0..(total - 1) |->
            CHOOSE i \in 0..(total - 1) : RankIn(keys, i, total) = RankIn(dest, c, total)]

\* make_photomosaic -> make_collage_helper: tile_info[i, j] = tile.info for every
\* cell, flattened in row-major order
make_ledger(tiles, picked, total) ==
    [k \in 1..total |-> StoreU1(TileLabel(tiles[picked[k - 1] + 1]))]

FairIdle ==
    /\ fpc = "idle"
    /\ fin = [num_tiles |-> 1, dup |-> <<1, 1>>, dh |-> 1, dw |-> 1, th |-> 1, tw |-> 1,
              keys |-> "flat", dest |-> "flat"]
    /\ imgs = <<>>
    /\ fgrid = <<0, 0>>
    /\ block_size = <<0, 0>>
    /\ fassign = <<>>
    /\ tile_info = <<>>

FairInit ==
    /\ fpc = "new"
    /\ fin \in [num_tiles : 1..MaxTiles, dup : DupChoices,
                dh : {DestUnit * a : a \in 1..MaxRatio}, dw : {DestUnit * a : a \in 1..MaxRatio},
                th : 1..MaxTileDim, tw : 1..MaxTileDim,
                keys : {"flat", "own"}, dest : {"flat", "ramp", "mixed"}]
    /\ imgs = [k \in 1..fin.num_tiles |-> k - 1]
    /\ fgrid = <<0, 0>>
    /\ block_size = <<0, 0>>
    /\ fassign = <<>>
    /\ tile_info = <<>>

\* MosaicFair.__init__ with grid=None
MosaicFairInit ==
    /\ fpc = "new"
    /\ LET r == calc_grid_size(fin.dw, fin.dh, Round(Len(imgs) * fin.dup[1], fin.dup[2]),
                               fin.th, fin.tw)
           total == r.grid[1] * r.grid[2]
       IN  IF r.raised
           THEN /\ fpc' = "raised"
                /\ UNCHANGED <<imgs, fgrid, block_size>>
           ELSE /\ fpc' = "ready"
                /\ fgrid' = r.grid
                /\ imgs' = dup_to_meet_total(imgs, total)
                /\ block_size' = compute_block_size(fin.dh, fin.dw, r.grid, fin.th, fin.tw)
    /\ UNCHANGED <<fin, fassign, tile_info, notFair>>

\* MosaicFair.process_dest_img
FairProcessDestImg ==
    /\ fpc = "ready"
    /\ LET total == fgrid[1] * fgrid[2]
           cols == solve_lap_sorted(imgs, Len(imgs), fin.keys, fin.dest)
       IN  /\ fassign' = cols
           /\ tile_info' = make_ledger(imgs, cols, total)
    /\ fpc' = "done"
    /\ UNCHANGED <<fin, imgs, fgrid, block_size, notFair>>

FairNext == MosaicFairInit \/ FairProcessDestImg

-----------------------------------------------------------------------------
(* MosaicUnfair: every block takes the nearest tile, tiles may repeat *)

MaxKeys == 3        \* the unfair tile pool holds 1..MaxKeys pictures
MaxWidth == 3       \* --max_width ranges over 1..MaxWidth
MaxCells == 6       \* grids of at most MaxCells blocks
MaxShuffle == 3     \* np.random.shuffle is followed over grids of at most MaxShuffle blocks
FreqMuls == {0, 1, 2, 8}            \* --freq_mul in halves: 0, 0.5, 1, 4
Limits == {0, 256, 1048576}         \* LIMIT in bytes, at the scale of the model's pictures

Unset == -1         \* an entry of cp.empty that was never written

Min(a, b) == IF a < b THEN a ELSE b
Max(a, b) == IF a > b THEN a ELSE b

RECURSIVE Pow16(_)
Pow16(k) == IF k = 0 THEN 1 ELSE 16 * Pow16(k - 1)

\* the blocks of a grid that spread their error: columns 1..W-2 of rows 0..R-2;
\* every spreading divides by 16, so features are kept in units of 16^-DitherSteps
DitherSteps(g) == IF g[1] > 2 /\ g[2] > 1 THEN (g[1] - 2) * (g[2] - 1) ELSE 0
DitherUnit(g) == Pow16(DitherSteps(g))

\* grid = (max_width, round(dh * (max_width * tw / dw) / th))
UnfairGrid(in) == <<in.max_width, Round(in.dh * in.max_width * in.tw, in.dw * in.th)>>

\* self.row_stride at line 697, the value "No chunking will be performed" is
\* printed for when it is >= num_rows
ReportedStride(in, g, bs) ==
    LET flat_block_size == bs[1] * bs[2] * 3
        num_rows == g[1] * g[2]
        num_cols == in.num_tiles
    IN  (in.limit - (num_cols * flat_block_size + num_rows * (1 + flat_block_size)) * 4)
            \div (num_cols * 4)

\* self.row_stride after __init__
RowStride(in, g, bs) ==
    LET flat_block_size == bs[1] * bs[2] * 3
        num_rows == g[1] * g[2]
        num_cols == in.num_tiles
        stride == (in.limit - (num_cols * flat_block_size + num_rows * (1 + flat_block_size)) * 4)
                      \div (num_cols * 4)
    IN  IF in.freq_mul > 0 THEN stride \div 16 ELSE stride \div 4

\* the rows a[lo:hi] of an array of length len, as Python slices them
SliceIndex(x, len) == IF x < 0 THEN Max(x + len, 0) ELSE Min(x, len)
Slice_Inclusive(lo, hi, len) ==
    {k \in 0..(len - 1) : SliceIndex(lo, len) <= k /\ k <= SliceIndex(hi, len)}
Slice(lo, hi, len) == {k \in 0..(len - 1) : SliceIndex(lo, len) <= k /\ k < SliceIndex(hi, len)}

\* self.cdist(block)[0]: the distance of one block to every tile key (the order
\* and the ties of the squared euclidean distance between the two numbers)
Dist(block, in, g) ==
    [t \in 0..(in.num_tiles - 1) |-> Abs(block - TileKey(in.keys, t) * DitherUnit(g))]

\* cp.argmin: the first index of the least entry
ArgMin(f, n) == CHOOSE k \in 0..(n - 1) : \A j \in 0..(n - 1) : f[k] < f[j] \/ (f[k] = f[j] /\ k <= j)

\* dist[cp.argsort(dist)] = self.temp: every distance is replaced by its rank;
\* argsort is not a stable sort, equal distances are ranked in any order
Rankings(dist, n) == {r \in Perms(n) : \A a, b \in 0..(n - 1) : dist[a] < dist[b] => r[a] < r[b]}

\* the tiles cp.argmin(rank + indices_freq) can return for one block
FreqPick_Nearest(block, freq, in, g) == {ArgMin(Dist(block, in, g), in.num_tiles)}
FreqPick(block, freq, in, g) ==
    {ArgMin([t \in 0..(in.num_tiles - 1) |-> 2 * r[t] + freq[t]], in.num_tiles) :
        r \in Rankings(Dist(block, in, g), in.num_tiles)}

\* the tile cp.argmin(self.cdist(block)) returns for one block
NearestPick(block, in, g) == ArgMin(Dist(block, in, g), in.num_tiles)

\* quant_error = (block - self.img_keys[best_i]) * coeffs, added to the right
\* neighbour and to the three neighbours below; c is the flat index of (i, j)
Diffuse_NoBelowRight(d, c, best, in, g) ==
    LET quant_error == d[c] - TileKey(in.keys, best) * DitherUnit(g)
        W == g[1]
    IN  [k \in DOMAIN d |->
            d[k] + (IF k = c + 1 THEN (quant_error * 7) \div 16
                    ELSE IF k = c + W - 1 THEN (quant_error * 3) \div 16
                    ELSE IF k = c + W THEN (quant_error * 5) \div 16
                    ELSE 0)]
Diffuse(d, c, best, in, g) ==
    LET quant_error == d[c] - TileKey(in.keys, best) * DitherUnit(g)
        W == g[1]
    IN  [k \in DOMAIN d |->
            d[k] + (IF k = c + 1 THEN (quant_error * 7) \div 16
                    ELSE IF k = c + W - 1 THEN (quant_error * 3) \div 16
                    ELSE IF k = c + W THEN (quant_error * 5) \div 16
                    ELSE IF k = c + W + 1 THEN quant_error \div 16
                    ELSE 0)]

Total == ugrid[1] * ugrid[2]
Blocks == 0..(Total - 1)
Tiles == 0..(uin.num_tiles - 1)

UnfairInputs ==
    {in \in [num_tiles : 1..MaxKeys, max_width : 1..MaxWidth,
             dh : {DestUnit * a : a \in 1..MaxRatio}, dw : {DestUnit * a : a \in 1..MaxRatio},
             th : 1..MaxTileDim, tw : 1..MaxTileDim,
             keys : {"flat", "own"}, dest : {"flat", "mixed"},
             freq_mul : FreqMuls, dither : BOOLEAN, randomize : BOOLEAN, limit : Limits] :
        LET cells == UnfairGrid(in)[1] * UnfairGrid(in)[2]
        IN  /\ cells <= MaxCells
            /\ (in.randomize /\ in.freq_mul > 0 /\ ~in.dither) => cells <= MaxShuffle}

UnfairIdle ==
    /\ upc = "idle"
    /\ uin = [num_tiles |-> 1, max_width |-> 1, dh |-> 1, dw |-> 1, th |-> 1, tw |-> 1,
              keys |-> "flat", dest |-> "flat", freq_mul |-> 0, dither |-> FALSE,
              randomize |-> FALSE, limit |-> 0]
    /\ ugrid = <<0, 0>>
    /\ ublock = <<0, 0>>
    /\ row_stride = 0
    /\ randomize = FALSE
    /\ dest_img = <<>>
    /\ assignment = <<>>
    /\ indices_freq = <<>>
    /\ indices = <<>>
    /\ ui = 0
    /\ uj = 0
    /\ uledger = <<>>
    /\ visited = <<>>

UnfairInit ==
    /\ upc = "new"
    /\ uin \in UnfairInputs
    /\ ugrid = <<0, 0>>
    /\ ublock = <<0, 0>>
    /\ row_stride = 0
    /\ randomize = FALSE
    /\ dest_img = <<>>
    /\ assignment = <<>>
    /\ indices_freq = <<>>
    /\ indices = <<>>
    /\ ui = 0
    /\ uj = 0
    /\ uledger = <<>>
    /\ visited = <<>>

\* MosaicUnfair.__init__ (no saliency, no transparency mask): a grid of zero rows
\* makes compute_block_size divide by zero
MosaicUnfairInit ==
    /\ upc = "new"
    /\ LET g == UnfairGrid(uin)
       IN  IF g[2] = 0
           THEN /\ upc' = "init_raised"
                /\ ugrid' = g
                /\ UNCHANGED <<ublock, row_stride, randomize>>
           ELSE /\ upc' = "ready"
                /\ ugrid' = g
                /\ ublock' = compute_block_size(uin.dh, uin.dw, g, uin.th, uin.tw)
                /\ row_stride' = RowStride(uin, g, compute_block_size(uin.dh, uin.dw, g, uin.th, uin.tw))
                /\ randomize' = (uin.randomize /\ ~uin.dither)
    /\ UNCHANGED <<uin, dest_img, assignment, visited, indices_freq, indices, ui, uj, uledger, notUnfair>>

\* process_dest_img up to the first loop: the flat blocks, the empty assignment,
\* the zeroed use counts and, with freq_mul > 0 and randomize, the shuffled order
UnfairBegin ==
    /\ upc = "ready"
    /\ \E order \in IF uin.freq_mul > 0 /\ randomize THEN Perms(Total)
                    ELSE {[k \in Blocks |-> k]} :
        /\ indices' = order
        /\ dest_img' = [k \in Blocks |-> DestBlock(uin.dest, order[k]) * DitherUnit(ugrid)]
    /\ assignment' = [k \in Blocks |-> Unset]
    /\ visited' = <<>>
    /\ indices_freq' = [t \in Tiles |-> 0]
    /\ ui' = 0
    /\ uj' = 0
    /\ upc' = IF uin.freq_mul > 0
              THEN IF uin.dither THEN (IF ugrid[2] > 1 THEN "fd_first" ELSE "fd_lastrow")
                   ELSE "f_head"
              ELSE IF uin.dither THEN (IF ugrid[2] > 1 THEN "d_first" ELSE "d_lastrow")
                   ELSE "p_head"
    /\ UNCHANGED <<uin, ugrid, ublock, row_stride, randomize, uledger, notUnfair>>

Cell_ColumnMajor(i, j) == j * ugrid[2] + i
Cell(i, j) == i * ugrid[1] + j

\* the rows of a slice in the order an array operation writes them
RECURSIVE Ascending(_)
Ascending(S) ==
    IF S = {} THEN <<>>
    ELSE LET least == CHOOSE k \in S : \A m \in S : k <= m
         IN  <<least>> \o Ascending(S \ {least})

\* best_i = assignment[c] = cp.argmin(dist); indices_freq[best_i] += freq_mul
TakeFreq_NoCount(c, best) ==
    /\ assignment' = [assignment EXCEPT ![c] = best]
    /\ visited' = Append(visited, c)
    /\ UNCHANGED indices_freq
TakeFreq(c, best) ==
    /\ assignment' = [assignment EXCEPT ![c] = best]
    /\ visited' = Append(visited, c)
    /\ indices_freq' = [indices_freq EXCEPT ![best] = @ + uin.freq_mul]

\* freq_mul > 0 with dithering, rows 0..R-2: the first block of row i
FreqDitherFirst ==
    /\ upc = "fd_first"
    /\ \E best \in FreqPick(dest_img[Cell(ui, 0)], indices_freq, uin, ugrid) :
        TakeFreq(Cell(ui, 0), best)
    /\ IF ugrid[1] > 2
       THEN upc' = "fd_inner" /\ uj' = 1
       ELSE upc' = "fd_last" /\ uj' = 0
    /\ UNCHANGED <<uin, ugrid, ublock, row_stride, randomize, dest_img, indices, ui, uledger,
                   notUnfair>>

\* for j in range(1, dest_img.shape[1] - 1): take a tile, spread the error
FreqDitherInner ==
    /\ upc = "fd_inner"
    /\ \E best \in FreqPick(dest_img[Cell(ui, uj)], indices_freq, uin, ugrid) :
        /\ TakeFreq(Cell(ui, uj), best)
        /\ dest_img' = Diffuse(dest_img, Cell(ui, uj), best, uin, ugrid)
    /\ IF uj + 1 < ugrid[1] - 1
       THEN upc' = "fd_inner" /\ uj' = uj + 1
       ELSE upc' = "fd_last" /\ uj' = uj
    /\ UNCHANGED <<uin, ugrid, ublock, row_stride, randomize, indices, ui, uledger, notUnfair>>

\* j += 1; dist = self.cdist(dest_img[i, j:j+1])[0]: with one column the slice is
\* empty and [0] raises IndexError
FreqDitherLast ==
    /\ upc = "fd_last"
    /\ IF Slice(uj + 1, uj + 2, ugrid[1]) = {}
       THEN /\ upc' = "raised"
            /\ UNCHANGED <<assignment, visited, indices_freq, ui, uj>>
       ELSE /\ \E best \in FreqPick(dest_img[Cell(ui, uj + 1)], indices_freq, uin, ugrid) :
                TakeFreq(Cell(ui, uj + 1), best)
            /\ IF ui + 1 < ugrid[2] - 1
               THEN upc' = "fd_first" /\ ui' = ui + 1 /\ uj' = uj + 1
               ELSE upc' = "fd_lastrow" /\ ui' = ui /\ uj' = 0
    /\ UNCHANGED <<uin, ugrid, ublock, row_stride, randomize, dest_img, indices, uledger,
                   notUnfair>>

\* the last row: for j in range(0, dest_img.shape[1])
FreqDitherLastRow ==
    /\ upc = "fd_lastrow"
    /\ \E best \in FreqPick(dest_img[Cell(ugrid[2] - 1, uj)], indices_freq, uin, ugrid) :
        TakeFreq(Cell(ugrid[2] - 1, uj), best)
    /\ uj' = uj + 1
    /\ upc' = IF uj + 1 < ugrid[1] THEN "fd_lastrow" ELSE "finish"
    /\ UNCHANGED <<uin, ugrid, ublock, row_stride, randomize, dest_img, indices, ui, uledger,
                   notUnfair>>

\* freq_mul = 0 with dithering, rows 0..R-2: grid_assignment[i, 0] = argmin
DitherFirst ==
    /\ upc = "d_first"
    /\ assignment' = [assignment EXCEPT
                         ![Cell(ui, 0)] = NearestPick(dest_img[Cell(ui, 0)], uin, ugrid)]
    /\ visited' = Append(visited, Cell(ui, 0))
    /\ IF ugrid[1] > 2
       THEN upc' = "d_inner" /\ uj' = 1
       ELSE upc' = "d_last" /\ uj' = 0
    /\ UNCHANGED <<uin, ugrid, ublock, row_stride, randomize, dest_img, indices_freq, indices,
                   ui, uledger, notUnfair>>

DitherInner ==
    /\ upc = "d_inner"
    /\ LET best_i == NearestPick(dest_img[Cell(ui, uj)], uin, ugrid)
       IN  /\ assignment' = [assignment EXCEPT ![Cell(ui, uj)] = best_i]
           /\ visited' = Append(visited, Cell(ui, uj))
           /\ dest_img' = Diffuse(dest_img, Cell(ui, uj), best_i, uin, ugrid)
    /\ IF uj + 1 < ugrid[1] - 1
       THEN upc' = "d_inner" /\ uj' = uj + 1
       ELSE upc' = "d_last" /\ uj' = uj
    /\ UNCHANGED <<uin, ugrid, ublock, row_stride, randomize, indices_freq, indices, ui,
                   uledger, notUnfair>>

\* grid_assignment[i, -1] = cp.argmin(self.cdist(dest_img[i, -1:])[0])
DitherLast ==
    /\ upc = "d_last"
    /\ LET last == CHOOSE k \in Slice(-1, ugrid[1], ugrid[1]) : TRUE
       IN  /\ assignment' = [assignment EXCEPT
                                ![Cell(ui, last)] = NearestPick(dest_img[Cell(ui, last)], uin, ugrid)]
           /\ visited' = Append(visited, Cell(ui, last))
    /\ IF ui + 1 < ugrid[2] - 1
       THEN upc' = "d_first" /\ ui' = ui + 1
       ELSE upc' = "d_lastrow" /\ ui' = ui
    /\ UNCHANGED <<uin, ugrid, ublock, row_stride, randomize, dest_img, indices_freq, indices,
                   uj, uledger, notUnfair>>

\* cp.argmin(self.cdist(dest_img[-1]), axis=1, out=grid_assignment[-1])
DitherLastRow ==
    /\ upc = "d_lastrow"
    /\ assignment' = [k \in Blocks |->
                         IF k >= Cell(ugrid[2] - 1, 0)
                         THEN NearestPick(dest_img[k], uin, ugrid) ELSE assignment[k]]
    /\ visited' = visited \o Ascending({k \in Blocks : k >= Cell(ugrid[2] - 1, 0)})
    /\ upc' = "finish"
    /\ UNCHANGED <<uin, ugrid, ublock, row_stride, randomize, dest_img, indices_freq, indices,
                   ui, uj, uledger, notUnfair>>

\* freq_mul > 0, no dithering: while i < total - row_stride, and the tail's
\* "if i < total".  The ranks are written through self.row_range, which has
\* max(row_stride, 0) rows: with no row it broadcasts against a chunk of 0 or 1
\* rows only, and with row_stride <= 0 the inner loop never moves i
FreqChunkHead ==
    /\ upc = "f_head"
    /\ IF ui < Total - row_stride
       THEN upc' = IF row_stride > 0 THEN "f_block"
                   ELSE IF Cardinality(Slice(ui, ui + row_stride, Total)) >= 2 THEN "raised"
                   ELSE "spin"
       ELSE upc' = IF ui < Total THEN "f_tail" ELSE "f_unshuffle"
    /\ uj' = 0
    /\ UNCHANGED <<uin, ugrid, ublock, row_stride, randomize, dest_img, assignment, visited,
                   indices_freq, indices, ui, uledger, notUnfair>>

\* while j < row_stride: one row of the chunk
FreqChunkBlock ==
    /\ upc = "f_block"
    /\ \E idx \in FreqPick(dest_img[ui], indices_freq, uin, ugrid) : TakeFreq(ui, idx)
    /\ ui' = ui + 1
    /\ uj' = uj + 1
    /\ upc' = IF uj + 1 < row_stride THEN "f_block" ELSE "f_head"
    /\ UNCHANGED <<uin, ugrid, ublock, row_stride, randomize, dest_img, indices, uledger,
                   notUnfair>>

\* while i < total: one row of the last chunk
FreqTailBlock ==
    /\ upc = "f_tail"
    /\ \E idx \in FreqPick(dest_img[ui], indices_freq, uin, ugrid) : TakeFreq(ui, idx)
    /\ ui' = ui + 1
    /\ uj' = uj + 1
    /\ upc' = IF ui + 1 < Total THEN "f_tail" ELSE "f_unshuffle"
    /\ UNCHANGED <<uin, ugrid, ublock, row_stride, randomize, dest_img, indices, uledger,
                   notUnfair>>

\* assignment[_indices] = assignment.copy()
FreqUnshuffle_Forward ==
    /\ upc = "f_unshuffle"
    /\ assignment' = [k \in Blocks |-> assignment[indices[k]]]
    /\ UNCHANGED visited
    /\ upc' = "finish"
    /\ UNCHANGED <<uin, ugrid, ublock, row_stride, randomize, dest_img, indices_freq, indices,
                   ui, uj, uledger, notUnfair>>
FreqUnshuffle ==
    /\ upc = "f_unshuffle"
    /\ assignment' = [k \in Blocks |-> assignment[CHOOSE m \in Blocks : indices[m] = k]]
    /\ UNCHANGED visited
    /\ upc' = "finish"
    /\ UNCHANGED <<uin, ugrid, ublock, row_stride, randomize, dest_img, indices_freq, indices,
                   ui, uj, uledger, notUnfair>>

\* freq_mul = 0, no dithering: one chunk of "while i < total - row_stride".  With
\* row_stride <= 0 the condition stays true for ever: i stands still or falls
PlainChunk ==
    /\ upc = "p_head"
    /\ ui < Total - row_stride
    /\ LET next_i == ui + row_stride
       IN  /\ assignment' = [k \in Blocks |->
                                IF k \in Slice(ui, next_i, Total)
                                THEN NearestPick(dest_img[k], uin, ugrid) ELSE assignment[k]]
           /\ visited' = visited \o Ascending(Slice(ui, next_i, Total))
           /\ ui' = next_i
    /\ upc' = IF row_stride > 0 THEN "p_head" ELSE "spin"
    /\ UNCHANGED <<uin, ugrid, ublock, row_stride, randomize, dest_img, indices_freq, indices,
                   uj, uledger, notUnfair>>

\* if i < total: the last chunk
PlainTail ==
    /\ upc = "p_head"
    /\ ~(ui < Total - row_stride)
    /\ assignment' = [k \in Blocks |->
                         IF ui < Total /\ k \in Slice(ui, Total, Total)
                         THEN NearestPick(dest_img[k], uin, ugrid) ELSE assignment[k]]
    /\ visited' = visited \o (IF ui < Total THEN Ascending(Slice(ui, Total, Total)) ELSE <<>>)
    /\ upc' = "finish"
    /\ UNCHANGED <<uin, ugrid, ublock, row_stride, randomize, dest_img, indices_freq, indices,
                   ui, uj, uledger, notUnfair>>

\* return self.make_photomosaic(assignment): [self.imgs[i] for i in assignment]
UnfairFinish ==
    /\ upc = "finish"
    /\ uledger' = make_ledger([k \in 1..uin.num_tiles |-> k - 1], assignment, Total)
    /\ upc' = "done"
    /\ UNCHANGED <<uin, ugrid, ublock, row_stride, randomize, dest_img, assignment, visited,
                   indices_freq, indices, ui, uj, notUnfair>>

UnfairNext ==
    \/ MosaicUnfairInit
    \/ UnfairBegin
    \/ FreqDitherFirst
    \/ FreqDitherInner
    \/ FreqDitherLast
    \/ FreqDitherLastRow
    \/ DitherFirst
    \/ DitherInner
    \/ DitherLast
    \/ DitherLastRow
    \/ FreqChunkHead
    \/ FreqChunkBlock
    \/ FreqTailBlock
    \/ FreqUnshuffle
    \/ PlainChunk
    \/ PlainTail
    \/ UnfairFinish

-----------------------------------------------------------------------------
(* The CPU video pipeline: main feeds in_q, num_process workers run           *)
(* frame_process, completions come back on out_q                              *)

MaxVideo == 4       \* the video holds 1..MaxVideo frames
MaxSkip == 2        \* --skip_frame ranges over 1..MaxSkip
MaxProc == 2        \* num_process ranges over 1..MaxProc

None == -1          \* the index of the sentinel (None, None)

\* the frames frame_generator yields: every skip_frame-th frame of the video
Yielded(in) == {f \in 0..(in.num_frames - 1) : f % in.skip_frame = 0}

\* save_img(out, path, suffix): os.path.splitext(path), then
\* f'{file_path}{suffix}{ext}'; the worker's suffix is f".{i}"
Suffix_NoIndex(i) == <<".", 0>>
Suffix(i) == <<".", i>>
SavePath(path, suffix) == <<path[1], suffix, path[2]>>
OutPath == <<"out", ".png">>

\* while pbar.n <= i
DrainPending_OneMore(n, i) == n <= i + 1
DrainPending(n, i) == n <= i

Workers == 1..vin.num_process

VideoInputs ==
    {in \in [num_frames : 1..MaxVideo, skip_frame : 1..MaxSkip, num_process : 1..MaxProc,
             fails : SUBSET (0..(MaxVideo - 1))] :
        in.fails \subseteq 0..(Cardinality(Yielded(in)) - 1)}

VideoIdle ==
    /\ vpc = "idle"
    /\ vin = [num_frames |-> 1, skip_frame |-> 1, num_process |-> 1, fails |-> {}]
    /\ gen_i = 0
    /\ enum_n = 0
    /\ vi = 0
    /\ vp = 0
    /\ in_q = <<>>
    /\ out_q = <<>>
    /\ vpbar_n = 0
    /\ wpc = <<>>
    /\ whold = <<>>
    /\ files = {}
    /\ nwrites = 0
    /\ put_log = <<>>

\* main at "in_q = mp.Queue(); out_q = mp.Queue(); processes = []"
VideoInit ==
    /\ vpc = "start"
    /\ vin \in VideoInputs
    /\ gen_i = 0
    /\ enum_n = 0
    /\ vi = 0
    /\ vp = 0
    /\ in_q = <<>>
    /\ out_q = <<>>
    /\ vpbar_n = 0
    /\ wpc = [w \in 1..vin.num_process |-> "unstarted"]
    /\ whold = [w \in 1..vin.num_process |-> [i |-> None, frame |-> None]]
    /\ files = {}
    /\ nwrites = 0
    /\ put_log = <<>>

\* for i in range(num_process): p = mp.Process(...); p.start()
StartWorker ==
    /\ vpc = "start"
    /\ wpc' = [wpc EXCEPT ![vp + 1] = "get"]
    /\ vi' = vp
    /\ IF vp + 1 < vin.num_process
       THEN vpc' = "start" /\ vp' = vp + 1
       ELSE vpc' = "feed" /\ vp' = 0
    /\ UNCHANGED <<vin, gen_i, enum_n, in_q, out_q, vpbar_n, whold, files, nwrites, put_log,
                   notVideo>>

\* for i, frame in enumerate(frames_gen): in_q.put((i, frame)); the generator
\* runs on to the next frame whose number is a multiple of skip_frame
FeedFrame ==
    /\ vpc = "feed"
    /\ LET rest == {f \in Yielded(vin) : f >= gen_i}
       IN  IF rest # {}
           THEN LET frame == CHOOSE f \in rest : \A g \in rest : f <= g
                IN  /\ gen_i' = frame + 1
                    /\ vi' = enum_n
                    /\ enum_n' = enum_n + 1
                    /\ in_q' = Append(in_q, [i |-> enum_n, frame |-> frame])
                    /\ put_log' = Append(put_log, [i |-> enum_n, frame |-> frame])
                    /\ vpc' = "poll"
           ELSE /\ gen_i' = vin.num_frames
                /\ vpc' = "drain"
                /\ UNCHANGED <<vi, enum_n, in_q, put_log>>
    /\ UNCHANGED <<vin, vp, out_q, vpbar_n, wpc, whold, files, nwrites, notVideo>>

\* if not out_q.empty(): out_q.get(); pbar.update() -- a completion that was put
\* may not have reached main's end of the queue yet, and then empty() is True
PollCompletion ==
    /\ vpc = "poll"
    /\ \/ UNCHANGED <<out_q, vpbar_n>>
       \/ /\ out_q # <<>>
          /\ out_q' = Tail(out_q)
          /\ vpbar_n' = vpbar_n + 1
    /\ vpc' = "feed"
    /\ UNCHANGED <<vin, gen_i, enum_n, vi, vp, in_q, wpc, whold, files, nwrites, put_log,
                   notVideo>>

\* while pbar.n <= i: out_q.get(); pbar.update() -- get blocks on an empty queue
DrainCompletion ==
    /\ vpc = "drain"
    /\ DrainPending(vpbar_n, vi)
    /\ out_q # <<>>
    /\ out_q' = Tail(out_q)
    /\ vpbar_n' = vpbar_n + 1
    /\ UNCHANGED <<vpc, vin, gen_i, enum_n, vi, vp, in_q, wpc, whold, files, nwrites, put_log,
                   notVideo>>

\* the while loop ends
DrainDone ==
    /\ vpc = "drain"
    /\ ~DrainPending(vpbar_n, vi)
    /\ vpc' = "sentinels"
    /\ vp' = 0
    /\ UNCHANGED <<vin, gen_i, enum_n, vi, in_q, out_q, vpbar_n, wpc, whold, files, nwrites,
                   put_log, notVideo>>

\* for p in processes: in_q.put((None, None))
PutSentinel ==
    /\ vpc = "sentinels"
    /\ in_q' = Append(in_q, [i |-> None, frame |-> None])
    /\ IF vp + 1 < vin.num_process
       THEN vpc' = "sentinels" /\ vp' = vp + 1
       ELSE vpc' = "join" /\ vp' = 0
    /\ UNCHANGED <<vin, gen_i, enum_n, vi, out_q, vpbar_n, wpc, whold, files, nwrites, put_log,
                   notVideo>>

\* for p in processes: p.join() -- returns once the process has ended, either way
JoinWorker ==
    /\ vpc = "join"
    /\ wpc[vp + 1] \in {"exited", "crashed"}
    /\ IF vp + 1 < vin.num_process
       THEN vpc' = "join" /\ vp' = vp + 1
       ELSE vpc' = "done" /\ vp' = vp + 1
    /\ UNCHANGED <<vin, gen_i, enum_n, vi, in_q, out_q, vpbar_n, wpc, whold, files, nwrites,
                   put_log, notVideo>>

\* frame_process: i, frame = in_q.get(); if i is None: break
WorkerGet(w) ==
    /\ w \in Workers
    /\ wpc[w] = "get"
    /\ in_q # <<>>
    /\ in_q' = Tail(in_q)
    /\ whold' = [whold EXCEPT ![w] = Head(in_q)]
    /\ wpc' = [wpc EXCEPT ![w] = IF Head(in_q).i = None THEN "exited" ELSE "work"]
    /\ UNCHANGED <<vpc, vin, gen_i, enum_n, vi, vp, out_q, vpbar_n, files, nwrites, put_log,
                   notVideo>>

\* out = process_frame(...): an exception is caught nowhere and ends the process
WorkerProcess(w) ==
    /\ w \in Workers
    /\ wpc[w] = "work"
    /\ wpc' = [wpc EXCEPT ![w] = IF whold[w].i \in vin.fails THEN "crashed" ELSE "save"]
    /\ UNCHANGED <<vpc, vin, gen_i, enum_n, vi, vp, in_q, out_q, vpbar_n, whold, files, nwrites,
                   put_log, notVideo>>

\* save_img(out, path, f".{i}"); out_q.put(i)
WorkerSave(w) ==
    /\ w \in Workers
    /\ wpc[w] = "save"
    /\ files' = files \cup {[path |-> SavePath(OutPath, Suffix(whold[w].i)),
                             frame |-> whold[w].frame, by |-> w]}
    /\ nwrites' = nwrites + 1
    /\ out_q' = Append(out_q, whold[w].i)
    /\ wpc' = [wpc EXCEPT ![w] = "get"]
    /\ UNCHANGED <<vpc, vin, gen_i, enum_n, vi, vp, in_q, vpbar_n, whold, put_log, notVideo>>

MainNext ==
    \/ StartWorker
    \/ FeedFrame
    \/ PollCompletion
    \/ DrainCompletion
    \/ DrainDone
    \/ PutSentinel
    \/ JoinWorker

VideoNext ==
    \/ MainNext
    \/ \E w \in Workers : WorkerGet(w)
    \/ \E w \in Workers : WorkerProcess(w)
    \/ \E w \in Workers : WorkerSave(w)

-----------------------------------------------------------------------------
(* The sequential video loop of main (--gpu): every frame of frames_gen is   *)
(* processed and saved in main's own process                                 *)

\* save_img(out, args.out, f"_{idx}")
SeqSuffix(idx) == <<"_", idx>>

SeqIdle ==
    /\ seq_pc = "idle"
    /\ seq_gen_i = 0
    /\ seq_idx = 0
    /\ seq_files = {}

\* main at "for idx, frame in tqdm(enumerate(frames_gen), ...)", on the video vin
SeqInit ==
    /\ seq_pc = "loop"
    /\ seq_gen_i = 0
    /\ seq_idx = 0
    /\ seq_files = {}

\* one turn of the loop: the generator runs on to the next frame whose number is
\* a multiple of skip_frame, process_frame (an exception ends main), save_img
SeqFrame ==
    /\ seq_pc = "loop"
    /\ LET rest == {f \in Yielded(vin) : f >= seq_gen_i}
       IN  IF rest # {}
           THEN LET frame == CHOOSE f \in rest : \A g \in rest : f <= g
                IN  /\ seq_gen_i' = frame + 1
                    /\ IF seq_idx \in vin.fails
                       THEN /\ seq_pc' = "raised"
                            /\ UNCHANGED <<seq_idx, seq_files>>
                       ELSE /\ seq_files' = seq_files \cup
                                   {[path |-> SavePath(OutPath, SeqSuffix(seq_idx)),
                                     frame |-> frame]}
                            /\ seq_idx' = seq_idx + 1
                            /\ seq_pc' = "loop"
           ELSE /\ seq_gen_i' = vin.num_frames
                /\ seq_pc' = "done"
                /\ UNCHANGED <<seq_idx, seq_files>>
    /\ UNCHANGED <<vvars, notSeq>>

SeqNext == SeqFrame

-----------------------------------------------------------------------------
(* CachedCDist for the cityblock and chebyshev metrics: _other streams the  *)
(* rows of A through the kernel in groups of row_stride                     *)

MaxKRows == 4       \* A has 1..MaxKRows rows
FeatLen == 3        \* the flat block of one pixel: three channels
KLimits == {0, 12, 36, 72, 1048576}     \* LIMIT in bytes, at the scale of the model's pictures

\* the flat blocks (FeatLen numbers) of tile s and of destination row c
KernelKey(kind, s) == <<TileKey(kind, s), (2 * s) % 3, 0>>
KernelRow(kind, c) == <<DestBlock(kind, c), c % 2, 1>>

\* fast_cityblock: np.sum(np.abs(A - B), axis); fast_chebyshev: np.max(...)
fast_cityblock(a, b) == Abs(a[1] - b[1]) + Abs(a[2] - b[2]) + Abs(a[3] - b[3])
fast_chebyshev(a, b) == Max(Abs(a[1] - b[1]), Max(Abs(a[2] - b[2]), Abs(a[3] - b[3])))
dist_func(metric, a, b) == IF metric = "cityblock" THEN fast_cityblock(a, b) ELSE fast_chebyshev(a, b)

\* one row of dist_func(A[i:next_i, cp.newaxis, :], B, out=dist_mat[i:next_i], axis=2)
KernelDistRow(in, r) ==
    [t \in 0..(in.num_tiles - 1) |-> dist_func(in.metric, KernelRow(in.dest, r), KernelKey(in.keys, t))]

KRows == 0..(kin.rows - 1)

KernelInputs ==
    [rows : 1..MaxKRows, num_tiles : 1..MaxKeys, keys : {"flat", "own"}, dest : {"flat", "mixed"},
     metric : {"cityblock", "chebyshev"}, limit : KLimits]

KernelIdle ==
    /\ kpc = "idle"
    /\ kin = [rows |-> 1, num_tiles |-> 1, keys |-> "flat", dest |-> "flat",
              metric |-> "cityblock", limit |-> 0]
    /\ k_stride = 0
    /\ k_i = 0
    /\ dist_mat = <<>>
    /\ kwrites = <<>>

KernelInit ==
    /\ kpc = "new"
    /\ kin \in KernelInputs
    /\ k_stride = 0
    /\ k_i = 0
    /\ dist_mat = <<>>
    /\ kwrites = <<>>

\* CachedCDist.__init__: row_stride = LIMIT // (B.size * 4)
CachedCDistInit ==
    /\ kpc = "new"
    /\ k_stride' = kin.limit \div (kin.num_tiles * FeatLen * 4)
    /\ kpc' = "ready"
    /\ UNCHANGED <<kin, k_i, dist_mat, kwrites, notKernel>>

\* _other: dist_mat = cp.empty((total, B.shape[1])); i = 0
OtherBegin ==
    /\ kpc = "ready"
    /\ dist_mat' = [r \in KRows |-> [t \in 0..(kin.num_tiles - 1) |-> Unset]]
    /\ kwrites' = [r \in KRows |-> 0]
    /\ k_i' = 0
    /\ kpc' = "loop"
    /\ UNCHANGED <<kin, k_stride, notKernel>>

\* the rows of dist_mat[lo:hi] written by one kernel call
KernelWrite(lo, hi) ==
    /\ dist_mat' = [r \in KRows |->
                       IF r \in Slice(lo, hi, kin.rows) THEN KernelDistRow(kin, r) ELSE dist_mat[r]]
    /\ kwrites' = [r \in KRows |->
                      IF r \in Slice(lo, hi, kin.rows) THEN kwrites[r] + 1 ELSE kwrites[r]]

\* while i < total - row_stride: one group of rows; with row_stride = 0 the
\* group is empty and i stands still
OtherChunk ==
    /\ kpc = "loop"
    /\ k_i < kin.rows - k_stride
    /\ KernelWrite(k_i, k_i + k_stride)
    /\ k_i' = k_i + k_stride
    /\ kpc' = IF k_stride > 0 THEN "loop" ELSE "spin"
    /\ UNCHANGED <<kin, k_stride, notKernel>>

\* if i < total: the remainder; return dist_mat
OtherTail ==
    /\ kpc = "loop"
    /\ ~(k_i < kin.rows - k_stride)
    /\ IF k_i < kin.rows
       THEN KernelWrite(k_i, kin.rows)
       ELSE UNCHANGED <<dist_mat, kwrites>>
    /\ kpc' = "returned"
    /\ UNCHANGED <<kin, k_stride, k_i, notKernel>>

KernelNext == CachedCDistInit \/ OtherBegin \/ OtherChunk \/ OtherTail

-----------------------------------------------------------------------------
(* Collage: make_collage, make_collage_helper *)

MaxSide == 3        \* a grid has 1..MaxSide columns and 1..MaxSide rows
MaxSorted == 10     \* make_collage is handed 1..MaxSorted tiles

\* InfoArray(pixels, info): px is the number of the source picture
InfoArray(px, info) == [px |-> px, info |-> info]
Transparent == -2
Background ==
    InfoArray(Transparent, <<"b", "a", "c", "k", "g", "r", "o", "u", "n", "d">>)
PoolTile(s) == InfoArray(s, TileLabel(s % 10))

\* grid[::-1]
Reversed(g) == <<g[2], g[1]>>

\* f"Grid dimension: {grid[::-1]}" where grid is the helper's reversed grid
GridDimension_AsIs(g) == g
GridDimension(g) == Reversed(g)

\* the full branch: tiles.shape = grid; if rev: tiles[1::2] = tiles[1::2, ::-1];
\* tiles[i, j]
TileAt(L, shape, rev, i, j) ==
    L[i * shape[2] + (IF rev /\ i % 2 = 1 THEN shape[2] - 1 - j ELSE j) + 1]

\* make_collage_helper; masked when ridx and cidx are given, kept the cells
\* (ridx[k], cidx[k]) in order
make_collage_helper(g, L, rev, masked, kept) ==
    LET shape == Reversed(g)
        total == shape[1] * shape[2]
        cell(i, j) == i * shape[2] + j
        header == GridDimension(shape)
    IN  IF Len(L) = 0
        THEN [raised |-> TRUE, img |-> <<>>, text |-> <<>>]
        ELSE IF ~masked
        THEN IF Len(L) # total
             THEN [raised |-> TRUE, img |-> <<>>, text |-> <<>>]
             ELSE [raised |-> FALSE,
                   img |-> [c \in 0..(total - 1) |->
                               TileAt(L, shape, rev, c \div shape[2], c % shape[2]).px],
                   text |-> [dim |-> header,
                             labels |-> [k \in 1..total |->
                                 StoreU1(TileAt(L, shape, rev, (k - 1) \div shape[2],
                                                (k - 1) % shape[2]).info)]]]
        ELSE [raised |-> FALSE,
              img |-> [c \in 0..(total - 1) |->
                          IF \E k \in 1..Len(kept) : kept[k] = c
                          THEN L[CHOOSE k \in 1..Len(kept) : kept[k] = c].px
                          ELSE Transparent],
              text |-> [dim |-> header,
                        labels |-> [k \in 1..total |->
                            IF \E m \in 1..Len(kept) : kept[m] = k - 1
                            THEN StoreU1(L[CHOOSE m \in 1..Len(kept) : kept[m] = k - 1].info)
                            ELSE StoreU1(Background.info)]]]

\* make_collage up to its call of the helper: the list and the printed note
make_collage_keep_extras(g, L) ==
    LET total == g[1] * g[2]
        diff == total - Len(L)
    IN  IF diff > 0
        THEN [imgs |-> L \o [k \in 1..diff |-> Background], note |-> <<"added", diff>>]
        ELSE [imgs |-> L, note |-> <<>>]
make_collage(g, L) ==
    LET total == g[1] * g[2]
        diff == total - Len(L)
    IN  IF diff > 0
        THEN [imgs |-> L \o [k \in 1..diff |-> Background], note |-> <<"added", diff>>]
        ELSE IF Len(L) > total
        THEN [imgs |-> SubSeq(L, 1, total), note |-> <<"dropped", Len(L) - total>>]
        ELSE [imgs |-> L, note |-> <<>>]

CollageGrids == (1..MaxSide) \X (1..MaxSide)

CollageIdle ==
    /\ cpc = "idle"
    /\ cin = [grid |-> <<1, 1>>, tiles |-> <<>>, rev |-> FALSE, masked |-> FALSE, kept |-> <<>>]
    /\ sorted_imgs = <<>>
    /\ note = <<>>
    /\ combined_img = <<>>
    /\ info_text = <<>>

\* a call of make_collage with 1..MaxSorted tiles, or a call of
\* make_photomosaic_mask with the cells compute_block_map kept and one tile for
\* each of them
CollageInit ==
    /\ cpc = "new"
    /\ \E g \in CollageGrids :
        \/ \E n \in 1..MaxSorted, r \in BOOLEAN :
            cin = [grid |-> g, tiles |-> [k \in 1..n |-> PoolTile(k - 1)], rev |-> r,
                   masked |-> FALSE, kept |-> <<>>]
        \/ /\ g[1] * g[2] <= MaxCells
           /\ \E S \in SUBSET (0..(g[1] * g[2] - 1)) :
                cin = [grid |-> g,
                       tiles |-> [k \in 1..Cardinality(S) |-> PoolTile((k - 1) % MaxKeys)],
                       rev |-> FALSE, masked |-> TRUE, kept |-> Ascending(S)]
    /\ sorted_imgs = cin.tiles
    /\ note = <<>>
    /\ combined_img = <<>>
    /\ info_text = <<>>

\* make_collage(grid, sorted_imgs, rev)
MakeCollage ==
    /\ cpc = "new"
    /\ ~cin.masked
    /\ LET m == make_collage(cin.grid, sorted_imgs)
           h == make_collage_helper(cin.grid, m.imgs, cin.rev, FALSE, <<>>)
       IN  /\ sorted_imgs' = m.imgs
           /\ note' = m.note
           /\ IF h.raised
              THEN cpc' = "raised" /\ UNCHANGED <<combined_img, info_text>>
              ELSE cpc' = "done" /\ combined_img' = h.img /\ info_text' = h.text
    /\ UNCHANGED <<cin, notCollage>>

\* make_photomosaic_mask(assignment, ridx, cidx)
MakePhotomosaicMask ==
    /\ cpc = "new"
    /\ cin.masked
    /\ LET h == make_collage_helper(cin.grid, sorted_imgs, FALSE, TRUE, cin.kept)
       IN  IF h.raised
           THEN cpc' = "raised" /\ UNCHANGED <<combined_img, info_text>>
           ELSE cpc' = "done" /\ combined_img' = h.img /\ info_text' = h.text
    /\ UNCHANGED <<cin, sorted_imgs, note, notCollage>>

CollageNext == MakeCollage \/ MakePhotomosaicMask

-----------------------------------------------------------------------------
(* main: the global LIMIT, the checks, reading the tiles, building the mosaic *)

MemLimits == {0, 1, 7, 1000}        \* --mem_limit in MB
MB == 1048576                       \* 2**20
ArgWidths == {-1, 0, 2}             \* --max_width
ArgFreqMuls == {-1, 0, 1}           \* --freq_mul
ArgDups == {0, 1}                   \* --dup

\* num_process = max(1, args.num_process); LIMIT of lines 1220-1223
NumProcess(a) == Max(1, a.num_process)
PerProcessLimit_Undivided(a) == a.mem_limit * MB
PerProcessLimit(a) ==
    IF a.video /\ ~a.gpu
    THEN (a.mem_limit \div NumProcess(a)) * MB
    ELSE a.mem_limit * MB

\* the options MosaicUnfair.__init__ is left with (lines 711-734), called with
\* lower_thresh (saliency when it is not None), randomize, dither, transparent
UnfairOptions_KeepRandomize(salient, rnd, dither, transparent) ==
    IF transparent
    THEN [dither |-> FALSE, saliency |-> FALSE, transparent |-> TRUE, randomize |-> rnd]
    ELSE IF dither
    THEN [dither |-> TRUE, saliency |-> FALSE, transparent |-> FALSE, randomize |-> rnd]
    ELSE [dither |-> FALSE, saliency |-> salient, transparent |-> FALSE, randomize |-> rnd]
UnfairOptions(salient, rnd, dither, transparent) ==
    IF transparent
    THEN [dither |-> FALSE, saliency |-> FALSE, transparent |-> TRUE, randomize |-> rnd]
    ELSE IF dither
    THEN [dither |-> TRUE, saliency |-> FALSE, transparent |-> FALSE, randomize |-> FALSE]
    ELSE [dither |-> FALSE, saliency |-> salient, transparent |-> FALSE, randomize |-> rnd]

\* main's call of MosaicUnfair (lines 1279-1290): lower_thresh is None unless
\* --salient is given without --transparent
MainUnfairOptions(a) ==
    UnfairOptions(a.salient /\ ~a.transparent, ~a.deterministic, a.dither, a.transparent)

\* MosaicUnfair.__init__ up to imgs_to_flat_blocks for a square destination and
\* 1 x 1 tiles: compute_block_size divides by the sides of the grid
\* (ZeroDivisionError), and sides below 0 give block sides below 0, which
\* np.zeros refuses (ValueError)
MainGrid(a) ==
    UnfairGrid([max_width |-> a.max_width, dh |-> DestUnit, dw |-> DestUnit, th |-> 1, tw |-> 1])
UnfairBuildRaises(a) == MainGrid(a)[1] <= 0 \/ MainGrid(a)[2] <= 0

MainArgs ==
    [video : BOOLEAN, gpu : BOOLEAN, mem_limit : MemLimits, num_process : 0..(MaxProc + 1),
     dup : ArgDups, unfair : BOOLEAN, freq_mul : ArgFreqMuls, max_width : ArgWidths,
     dither : BOOLEAN, deterministic : BOOLEAN, salient : BOOLEAN, transparent : BOOLEAN]

MainIdle ==
    /\ mpc = "idle"
    /\ args = [video |-> FALSE, gpu |-> FALSE, mem_limit |-> 0, num_process |-> 0, dup |-> 1,
               unfair |-> FALSE, freq_mul |-> 0, max_width |-> 2, dither |-> FALSE,
               deterministic |-> FALSE, salient |-> FALSE, transparent |-> FALSE]
    /\ LIMIT = 0
    /\ mlog = <<>>
    /\ mos = <<>>

\* LIMIT = 2**32 when the module is loaded (line 31), at the scale of MemLimits
MainInit ==
    /\ mpc = "start"
    /\ args \in MainArgs
    /\ LIMIT = 2 * 1000 * MB
    /\ mlog = <<>>
    /\ mos = <<>>

\* lines 1218-1223
MainSetLimit ==
    /\ mpc = "start"
    /\ LIMIT' = PerProcessLimit(args)
    /\ mpc' = "limit"
    /\ UNCHANGED <<args, mlog, mos, notMain>>

\* lines 1225-1236 with an output path and a destination that exist:
\* check_dup_valid
MainCheck ==
    /\ mpc = "limit"
    /\ mpc' = IF args.dup > 0 THEN "checked" ELSE "rejected"
    /\ UNCHANGED <<args, LIMIT, mlog, mos, notMain>>

\* imgs = read_images(...)
MainReadImages ==
    /\ mpc = "checked"
    /\ mlog' = Append(mlog, "read_images")
    /\ mpc' = "read"
    /\ UNCHANGED <<args, LIMIT, mos, notMain>>

\* lines 1252-1267: the asserts on a video, the destination is opened (it has an
\* alpha channel when --transparent is given)
MainOpenDest ==
    /\ mpc = "read"
    /\ mpc' = IF args.video /\ args.salient /\ ~args.unfair THEN "rejected" ELSE "opened"
    /\ UNCHANGED <<args, LIMIT, mlog, mos, notMain>>

\* lines 1278-1292: mos = MosaicUnfair(...) | MosaicFairSalient(...) | MosaicFair(...)
MainBuildMosaic ==
    /\ mpc = "opened"
    /\ IF args.unfair
       THEN /\ mlog' = Append(mlog, "grid")
            /\ IF UnfairBuildRaises(args)
               THEN mpc' = "raised" /\ mos' = mos
               ELSE mpc' = "built" /\ mos' = MainUnfairOptions(args)
       ELSE /\ mlog' = IF args.salient \/ args.transparent THEN mlog ELSE Append(mlog, "grid")
            /\ mpc' = "built"
            /\ mos' = mos
    /\ UNCHANGED <<args, LIMIT, notMain>>

\* mos.process_dest_img(dest_img), or the frames of the video
MainProcess ==
    /\ mpc = "built"
    /\ mlog' = Append(mlog, "cdist")
    /\ mpc' = "done"
    /\ UNCHANGED <<args, LIMIT, mos, notMain>>

MainStep ==
    \/ MainSetLimit \/ MainCheck \/ MainReadImages \/ MainOpenDest \/ MainBuildMosaic
    \/ MainProcess

-----------------------------------------------------------------------------
(* calc_salient_col_even: the fair mosaic of the salient cells *)

MaxDestSide == 6    \* the destination is 2..MaxDestSide pixels high and wide
MaxPool == 4        \* the tile pool holds 1..MaxPool pictures

\* int(x) for x = n/d, d > 0: towards zero
Trunc(n, d) == IF n >= 0 THEN n \div d ELSE -((-n) \div d)

\* bw_f, bh_f and the deltas are kept exact, as numerators over SalientDen
SalientDen(in, g) == g[1] * g[2] * in.width

\* bw_delta / bh_delta of lines 596-601, for bw_f = width / grid[0] and
\* bh_f = height / grid[1]: the side that is not 1 is bh_f / bw_f in both branches
Deltas_None(in, g) == [bw |-> 0, bh |-> 0]
Deltas(in, g) ==
    LET d == SalientDen(in, g)
        bw0 == in.width * in.width * g[2]
        bh0 == in.height * g[1] * in.width
    IN  IF bw0 > bh0
        THEN [bw |-> d, bh |-> in.height * g[1] * g[1]]
        ELSE [bw |-> in.height * g[1] * g[1], bh |-> d]

\* compute_block_map: the grid of blocks of the resized threshold map
BlockMapGrid(in, bw, bh) ==
    <<(in.width - (in.width % bw)) \div bw, (in.height - (in.height % bh)) \div bh>>

\* len(ridx) of compute_block_map.  A map with no salient pixel selects no
\* block, a map salient everywhere selects every block; for any other map the
\* resampled map can select any number of blocks
BlockMapCounts(in, bw, bh) ==
    LET cells == BlockMapGrid(in, bw, bh)[1] * BlockMapGrid(in, bw, bh)[2]
    IN  IF in.map = "none" THEN {0}
        ELSE IF in.map = "all" THEN {cells}
        ELSE 0..cells

SalientInputs ==
    [height : 2..MaxDestSide, width : 2..MaxDestSide, num_tiles : 1..MaxPool, dup : 1..2,
     th : 1..MaxTileDim, tw : 1..MaxTileDim, map : {"none", "all", "part"}]

SalientIdle ==
    /\ spc = "idle"
    /\ sin = [height |-> 2, width |-> 2, num_tiles |-> 1, dup |-> 1, th |-> 1, tw |-> 1,
              map |-> "none"]
    /\ s_total = 0
    /\ s_grid = <<0, 0>>
    /\ bw_f = 0
    /\ bh_f = 0
    /\ bw_delta = 0
    /\ bh_delta = 0
    /\ s_block = <<0, 0>>
    /\ s_count = 0
    /\ s_warned = FALSE
    /\ s_imgs = <<>>
    /\ s_mosgrid = <<0, 0>>
    /\ s_iter = 0

SalientInit ==
    /\ spc = "new"
    /\ sin \in SalientInputs
    /\ s_total = 0
    /\ s_grid = <<0, 0>>
    /\ bw_f = 0
    /\ bh_f = 0
    /\ bw_delta = 0
    /\ bh_delta = 0
    /\ s_block = <<0, 0>>
    /\ s_count = 0
    /\ s_warned = FALSE
    /\ s_imgs = [k \in 1..sin.num_tiles |-> k - 1]
    /\ s_mosgrid = <<0, 0>>
    /\ s_iter = 0

\* lines 583-603: total, the first grid, bw_f, bh_f, the deltas
SalientStart ==
    /\ spc = "new"
    /\ LET total == sin.num_tiles * sin.dup
           r == calc_grid_size(sin.width, sin.height, total, sin.th, sin.tw)
       IN  /\ s_total' = total
           /\ IF r.raised
              THEN /\ spc' = "raised"
                   /\ UNCHANGED <<s_grid, bw_f, bh_f, bw_delta, bh_delta>>
              ELSE /\ spc' = "loop"
                   /\ s_grid' = r.grid
                   /\ bw_f' = sin.width * sin.width * r.grid[2]
                   /\ bh_f' = sin.height * r.grid[1] * sin.width
                   /\ bw_delta' = Deltas(sin, r.grid).bw
                   /\ bh_delta' = Deltas(sin, r.grid).bh
    /\ UNCHANGED <<sin, s_block, s_count, s_warned, s_imgs, s_mosgrid, s_iter, notSalient>>

\* one pass of "while True"
SalientShrink ==
    /\ spc = "loop"
    /\ LET d == SalientDen(sin, s_grid)
           block_width == Trunc(bw_f, d)
           block_height == Trunc(bh_f, d)
       IN  IF block_width <= 0 \/ block_height <= 0
           THEN /\ s_warned' = TRUE
                /\ s_block' = <<Max(block_width, 1), Max(block_height, 1)>>
                /\ s_count' \in BlockMapCounts(sin, Max(block_width, 1), Max(block_height, 1))
                /\ spc' = "mapped"
                /\ UNCHANGED <<bw_f, bh_f, s_iter>>
           ELSE /\ s_block' = <<block_width, block_height>>
                /\ s_count' \in BlockMapCounts(sin, block_width, block_height)
                /\ UNCHANGED s_warned
                /\ IF s_count' >= s_total
                   THEN spc' = "mapped" /\ UNCHANGED <<bw_f, bh_f, s_iter>>
                   ELSE /\ spc' = "loop"
                        /\ bw_f' = bw_f - bw_delta
                        /\ bh_f' = bh_f - bh_delta
                        /\ s_iter' = s_iter + 1
    /\ UNCHANGED <<sin, s_total, s_grid, bw_delta, bh_delta, s_imgs, s_mosgrid, notSalient>>

\* lines 620-636: dup_to_meet_total(imgs, len(ridx)), mos.grid, the assignment
\* and the masked mosaic; with no selected cell the tile list is empty and
\* building the mosaic raises
SalientFinish ==
    /\ spc = "mapped"
    /\ s_imgs' = dup_to_meet_total(s_imgs, s_count)
    /\ s_mosgrid' = BlockMapGrid(sin, s_block[1], s_block[2])
    /\ spc' = IF s_count = 0 THEN "raised" ELSE "done"
    /\ UNCHANGED <<sin, s_total, s_grid, bw_f, bh_f, bw_delta, bh_delta, s_block, s_count,
                   s_warned, s_iter, notSalient>>

SalientNext == SalientStart \/ SalientShrink \/ SalientFinish

-----------------------------------------------------------------------------
(* The specifications *)

GridSpecInit == GridInit /\ LapIdle /\ FairIdle /\ UnfairIdle /\ VideoIdle /\ KernelIdle /\ CollageIdle /\ MainIdle /\ SalientIdle /\ SeqIdle
GridSpec == GridSpecInit /\ [][GridNext]_vars

LapSpecInit == GridIdle /\ LapInit /\ FairIdle /\ UnfairIdle /\ VideoIdle /\ KernelIdle /\ CollageIdle /\ MainIdle /\ SalientIdle /\ SeqIdle
LapSpec == LapSpecInit /\ [][LapNext]_vars

GreedySpec == LapSpecInit /\ [][GreedyNext]_vars

FairSpecInit == GridIdle /\ LapIdle /\ FairInit /\ UnfairIdle /\ VideoIdle /\ KernelIdle /\ CollageIdle /\ MainIdle /\ SalientIdle /\ SeqIdle
FairSpec == FairSpecInit /\ [][FairNext]_vars

UnfairSpecInit == GridIdle /\ LapIdle /\ FairIdle /\ UnfairInit /\ VideoIdle /\ KernelIdle /\ CollageIdle /\ MainIdle /\ SalientIdle /\ SeqIdle
UnfairSpec == UnfairSpecInit /\ [][UnfairNext]_vars

VideoSpecInit == GridIdle /\ LapIdle /\ FairIdle /\ UnfairIdle /\ VideoInit /\ KernelIdle /\ CollageIdle /\ MainIdle /\ SalientIdle /\ SeqIdle
VideoSpec == VideoSpecInit /\ [][VideoNext]_vars

KernelSpecInit == GridIdle /\ LapIdle /\ FairIdle /\ UnfairIdle /\ VideoIdle /\ KernelInit /\ CollageIdle /\ MainIdle /\ SalientIdle /\ SeqIdle
KernelSpec == KernelSpecInit /\ [][KernelNext]_vars

CollageSpecInit == GridIdle /\ LapIdle /\ FairIdle /\ UnfairIdle /\ VideoIdle /\ KernelIdle /\ CollageInit /\ MainIdle /\ SalientIdle /\ SeqIdle
CollageSpec == CollageSpecInit /\ [][CollageNext]_vars

MainSpecInit ==
    GridIdle /\ LapIdle /\ FairIdle /\ UnfairIdle /\ VideoIdle /\ KernelIdle /\ CollageIdle /\ MainInit
    /\ SalientIdle /\ SeqIdle
MainSpec == MainSpecInit /\ [][MainStep]_vars

SalientSpecInit ==
    /\ GridIdle /\ LapIdle /\ FairIdle /\ UnfairIdle /\ VideoIdle /\ KernelIdle /\ CollageIdle
    /\ MainIdle /\ SalientInit /\ SeqIdle
SalientSpec == SalientSpecInit /\ [][SalientNext]_vars

\* one video and one skip_frame given to both video paths of main
VideoPathsSpecInit ==
    /\ GridIdle /\ LapIdle /\ FairIdle /\ UnfairIdle /\ VideoInit /\ KernelIdle /\ CollageIdle
    /\ MainIdle /\ SalientIdle /\ SeqInit
VideoPathsNext == VideoNext \/ SeqNext
VideoPathsSpec == VideoPathsSpecInit /\ [][VideoPathsNext]_vars

\* the distance engine as a whole: a run of process_dest_img with its chunk
\* loops, or a run of the cityblock / chebyshev kernel with its own
EngineSpecInit == UnfairSpecInit \/ KernelSpecInit
EngineNext == UnfairNext \/ KernelNext
EngineSpec == EngineSpecInit /\ [][EngineNext]_vars

\* the operating system lets every process that can take a step take it
VideoFairSpec ==
    /\ VideoSpec
    /\ WF_vars(MainNext)
    /\ \A w \in 1..MaxProc : WF_vars(WorkerGet(w) \/ WorkerProcess(w) \/ WorkerSave(w))

-----------------------------------------------------------------------------
(* The claims *)

IsPermutation(f, n) ==
    /\ DOMAIN f = 0..(n - 1)
    /\ \A i \in 0..(n - 1) : f[i] \in 0..(n - 1)
    /\ \A i, j \in 0..(n - 1) : f[i] = f[j] => i = j

\* the mosaic ratio w*tw / (h*th) of a grid <<w, h>>, as possible_wh keeps it
GridRatio(w, h, th, tw) == [num |-> w * tw, den |-> th * h]

\* C1: for every slot count n >= 1, ratio and tile shape, calc_grid_size returns a
\* grid (w, h) with w >= 1, h >= 1 and w*h >= n.
C1_GridCoversSlots ==
    gpc \in {"returned", "raised"} =>
        /\ gpc = "returned"
        /\ grid[1] >= 1
        /\ grid[2] >= 1
        /\ grid[1] * grid[2] >= gin.num_imgs

\* C2: the returned grid's squared deviation from the target ratio is <= that of
\* every grid (w', h') of positive integers with w'*h' >= n, (n, 1) included.
\* Stated for the grids of least height for their width, (w', ceil(n/w')) for w'
\* in 1..n, of which (n, 1) is the last.
C2_GridDeviationLeast ==
    gpc = "returned" =>
        \A w \in 1..gin.num_imgs :
            ~DevLess(GridRatio(w, Ceil(gin.num_imgs, w), gin.th, gin.tw),
                     GridRatio(grid[1], grid[2], gin.th, gin.tw), gin.rw, gin.rh)

\* the cost of the pairs (lap_cols[j], j) and of the identity assignment
ColsCost == SumTo([j \in 0..(lap_n - 1) |-> cost_matrix[lap_cols[j]][j]], lap_n)
IdentityCost == SumTo([j \in 0..(lap_n - 1) |-> cost_matrix[j][j]], lap_n)

\* C3: solve_lap on a square matrix returns a permutation of 0..n-1; the reported
\* total cost is the sum of the entries at the returned pairs and is <= the cost of
\* the identity assignment.
C3_SolveLapPermutation ==
    lpc = "returned" =>
        /\ IsPermutation(lap_cols, lap_n)
        /\ lap_cost = ColsCost
        /\ lap_cost <= IdentityCost

C3_Witness ==
    /\ lpc = "returned"
    /\ lap_n = MaxLapN
    /\ lap_cost < IdentityCost
    /\ \E i \in 0..(lap_n - 1) : cost_matrix[i][lap_cols[i]] # cost_matrix[lap_cols[i]][i]

\* C4: solve_lap_greedy on every square matrix, tied costs included, ends with a
\* permutation: every row and column used exactly once, no entry left at -1; the
\* scan always has a next pair until it returns.
C4_GreedyPermutation ==
    /\ lpc = "scan" => argsort_next(cost_matrix, lap_n, scanned) # {}
    /\ lpc = "returned" =>
          /\ IsPermutation(lap_cols, lap_n)
          /\ IsPermutation(row_assigned, lap_n)
          /\ \A j \in 0..(lap_n - 1) : row_assigned[lap_cols[j]] = j
          /\ pbar_n = lap_n

C4_Witness ==
    /\ lpc = "returned"
    /\ lap_n = MaxLapN
    /\ Cardinality(scanned) > pbar_n
    /\ \E f, g \in scanned : f # g /\ FlatCost(cost_matrix, f, lap_n) = FlatCost(cost_matrix, g, lap_n)
    /\ \E f, g \in scanned : FlatCost(cost_matrix, f, lap_n) # FlatCost(cost_matrix, g, lap_n)

\* how many cells of the assignment hold source tile s
Usage(s) == Cardinality({c \in DOMAIN fassign : imgs[fassign[c] + 1] = s})
\* how many entries of the tile list are source tile s
Instances(s) == Cardinality({k \in DOMAIN imgs : imgs[k] = s})
Cells == fgrid[1] * fgrid[2]
SourceTiles == 0..(fin.num_tiles - 1)

\* C5: in fair mode the tile list after dup_to_meet_total has exactly columns*rows
\* entries (the cost matrix is square, one assignment entry per cell), and in the
\* final assignment the usage counts of any two source tiles differ by at most 1.
C5_FairPoolMeetsGrid ==
    /\ fpc \in {"ready", "done"} =>
          /\ Len(imgs) = Cells
          /\ \A s, t \in SourceTiles : Instances(s) - Instances(t) <= 1
    /\ fpc = "done" =>
          /\ IsPermutation(fassign, Cells)
          /\ \A s, t \in SourceTiles : Usage(s) - Usage(t) <= 1

C5_Witness ==
    /\ fpc = "done"
    /\ fin.num_tiles >= 3
    /\ \E s, t \in SourceTiles : Usage(s) = Usage(t) + 1
    /\ \E c \in DOMAIN fassign : fassign[c] # c

FairSolveIsOptimal ==
    (fpc = "done" /\ Cells <= 4) =>
        fassign \in {r.cols : r \in solve_lap(FairCostMatrix(imgs, Cells, fin.keys, fin.dest), Cells)}

\* make_photomosaic never reads an entry of assignment that was left unwritten
UnfairReadsNoUnset ==
    upc \in {"finish", "done"} => \A k \in Blocks : assignment[k] # Unset

\* C7: in unfair mode, for every grid shape (width 1 or 2 and height 1 included)
\* and every combination of freq_mul >= 0, dithering and randomization,
\* process_dest_img completes and gives every block one tile index in
\* [0, number of tiles).  Stated for the runs whose chunk stride is positive.
C7_UnfairAssignsEveryBlock ==
    (upc \in {"done", "raised", "spin"} /\ row_stride >= 1) =>
        /\ upc = "done"
        /\ \A k \in Blocks : assignment[k] \in Tiles

\* the pipeline is at rest: main and every worker have ended or wait on a queue
Quiescent == ~ENABLED VideoNext
\* the output path of the frame put with index i
FramePath(i) == SavePath(OutPath, Suffix(i))
Saved(i) == \E r \in files : r.path = FramePath(i)

\* C8: if one frame fails fatally in a worker, only that frame is dropped: every
\* other frame is still processed and saved, and the scheduler still reaches the
\* sentinel/join phase and terminates.  Stated on the states the pipeline comes
\* to rest in: there main has ended and every frame but the failing one is saved.
C8_FailedFrameOnlyDropped ==
    (Cardinality(vin.fails) = 1 /\ vpc # "idle" /\ Quiescent) =>
        /\ vpc = "done"
        /\ \A f \in 0..(Cardinality(Yielded(vin)) - 1) : f \notin vin.fails => Saved(f)

\* no sentinel is put before the completion of every frame has been received
SentinelsAfterCompletions ==
    (vpc \in {"sentinels", "join", "done"}) =>
        /\ vpbar_n = Cardinality(Yielded(vin))
        /\ Len(put_log) = Cardinality(Yielded(vin))
\* main is past the joins, every completion was received, every worker took one
\* sentinel and left, and no sentinel is left over
AllJoined ==
    /\ vpc = "done"
    /\ vpbar_n = Cardinality(Yielded(vin))
    /\ out_q = <<>>
    /\ in_q = <<>>
    /\ \A w \in Workers : wpc[w] = "exited" /\ whold[w].i = None

\* C9: with no failing frame and fair scheduling, the scheduler eventually
\* receives a completion for every enqueued frame, in any completion order, then
\* enqueues one sentinel per worker; every worker consumes exactly one sentinel
\* and exits, and the join of all workers returns.
C9_SchedulerTerminates ==
    (vin.fails = {}) => ([]SentinelsAfterCompletions /\ <>[]AllJoined)

\* a run of two workers that both saved frames and were both joined
C9_Witness ==
    /\ AllJoined
    /\ vin.fails = {}
    /\ vin.num_process = 2
    /\ \E r1, r2 \in files : r1.by # r2.by

\* the places an item put on in_q can be: still queued, with the worker that took
\* it (a worker that crashed keeps it), or saved
Queued(item) == Cardinality({q \in 1..Len(in_q) : in_q[q] = item})
InHand(item) == Cardinality({w \in Workers : wpc[w] \in {"work", "save", "crashed"} /\ whold[w] = item})
OnDisk(item) == Cardinality({r \in files : r.path = FramePath(item.i)})

\* C10: under every interleaving of the workers, each frame the generator yields
\* is enqueued once with an index of its own, taken and processed by exactly one
\* worker, and saved exactly once to the output path carrying that index; no
\* frame is processed twice, no two workers write the same file, and in a run
\* without a failing frame none is lost.
C10_EachFrameOnce ==
    /\ Len(put_log) = enum_n
    /\ \A k \in 1..Len(put_log) :
        /\ put_log[k].i = k - 1
        /\ put_log[k].frame = (k - 1) * vin.skip_frame
        /\ put_log[k].frame \in Yielded(vin)
        /\ Queued(put_log[k]) + InHand(put_log[k]) + OnDisk(put_log[k]) = 1
    /\ \A r \in files : \E k \in 1..Len(put_log) :
        r.path = FramePath(put_log[k].i) /\ r.frame = put_log[k].frame
    /\ Cardinality(files) = nwrites
    /\ \A r1, r2 \in files : r1.path = r2.path => r1 = r2
    /\ (vpc = "done" /\ vin.fails = {}) =>
        /\ Len(put_log) = Cardinality(Yielded(vin))
        /\ \A k \in 1..Len(put_log) : OnDisk(put_log[k]) = 1

\* the whole video was fed to two workers, each saved some frame, three or more
\* files are on disk
C10_Witness ==
    /\ vpc = "done"
    /\ vin.num_process = 2
    /\ Cardinality(files) >= 3
    /\ \E r1, r2 \in files : r1.by = 1 /\ r2.by = 2

\* C11: when the chunk row stride computed from the memory ceiling is zero or
\* negative, the chunked loops of process_dest_img and of the cityblock /
\* chebyshev kernel still make progress, terminate and assign every block (as
\* with a stride of 1), instead of failing.
C11_NonPositiveStrideDegrades ==
    /\ (upc \in {"done", "raised", "spin"} /\ ~uin.dither /\ row_stride <= 0) =>
        /\ upc = "done"
        /\ \A k \in Blocks : assignment[k] \in Tiles
    /\ (kpc \in {"returned", "spin"} /\ k_stride <= 0) =>
        /\ kpc = "returned"
        /\ \A r \in KRows : dist_mat[r] = KernelDistRow(kin, r)

\* the number of blocks tile t has been given so far
UsageOf(t) == Cardinality({k \in Blocks : assignment[k] = t})
UnfairStarted == upc \notin {"idle", "new", "ready", "init_raised"}

\* C12: with the frequency-balanced assignment and freq_mul greater than the
\* number of tiles, after every block assignment the usage counts of any two
\* tiles differ by at most 1, whatever the distances and the block order.
C12_FreqBalancesUsage ==
    (UnfairStarted /\ uin.freq_mul > 2 * uin.num_tiles) =>
        \A t1, t2 \in Tiles : UsageOf(t1) - UsageOf(t2) <= 1

\* every block is nearest to tile 0, and the tiles were still used evenly
C12_Witness ==
    /\ upc = "done"
    /\ uin.freq_mul > 2 * uin.num_tiles
    /\ uin.num_tiles = 3
    /\ uin.keys = "own"
    /\ uin.dest = "flat"
    /\ Total >= 4
    /\ \A t \in Tiles : UsageOf(t) >= 1

\* a step of a dithering loop that takes the tile of one block: the block, its
\* quantization error (in 1/DitherUnit) and what the step adds to block k
DitherTakesOne == UnfairStarted /\ uin.dither /\ Len(visited') = Len(visited) + 1
JustTaken == visited'[Len(visited')]
ErrorOf(c) == dest_img[c] - TileKey(uin.keys, assignment'[c]) * DitherUnit(ugrid)
AddedTo(k) == dest_img'[k] - dest_img[k]
AddedInAll == SumTo([k \in Blocks |-> AddedTo(k)], Total)
\* the sixteenths of the error aimed at the neighbours of block c that exist
ShareInCanvas(c) ==
    LET W == ugrid[1]
        R == ugrid[2]
        i == c \div W
        j == c % W
    IN  (IF j + 1 < W THEN 7 ELSE 0)
        + (IF i + 1 < R /\ j >= 1 THEN 3 ELSE 0)
        + (IF i + 1 < R THEN 5 ELSE 0)
        + (IF i + 1 < R /\ j + 1 < W THEN 1 ELSE 0)
\* the blocks the loops spread the error of: columns 1..W-2 of rows 0..R-2
Spreads(c) == c % ugrid[1] >= 1 /\ c % ugrid[1] <= ugrid[1] - 2 /\ c \div ugrid[1] <= ugrid[2] - 2

\* C13: in the dithered assignment the quantization error of every processed
\* block is fully added to its existing right, below-left, below and below-right
\* neighbours; error is discarded only for the part aimed at a neighbour outside
\* the canvas.
C13_ErrorReachesEveryNeighbour ==
    [][DitherTakesOne => 16 * AddedInAll = ErrorOf(JustTaken) * ShareInCanvas(JustTaken)]_vars

\* C13, amended: a block in columns 1..W-2 of rows 0..R-2 adds its whole error to
\* its right (7/16), below-left (3/16), below (5/16) and below-right (1/16)
\* neighbours and to no other block; a block of the first column, the last
\* column or the last row is given its tile without spreading any error.
C13_InnerErrorFullyDiffused ==
    [][DitherTakesOne =>
        LET c == JustTaken
            W == ugrid[1]
        IN  IF Spreads(c)
            THEN /\ AddedInAll = ErrorOf(c)
                 /\ 16 * AddedTo(c + 1) = 7 * ErrorOf(c)
                 /\ 16 * AddedTo(c + W - 1) = 3 * ErrorOf(c)
                 /\ 16 * AddedTo(c + W) = 5 * ErrorOf(c)
                 /\ 16 * AddedTo(c + W + 1) = ErrorOf(c)
                 /\ \A k \in Blocks \ {c + 1, c + W - 1, c + W, c + W + 1} : AddedTo(k) = 0
            ELSE dest_img' = dest_img]_vars

\* an inner block has spread an error that is not zero
C13_Witness ==
    /\ uin.dither
    /\ upc \in {"d_last", "fd_last"}
    /\ ugrid[1] >= 3
    /\ \E k \in Blocks : dest_img[k] # DestBlock(uin.dest, k) * DitherUnit(ugrid)

CollageTotal == cin.grid[1] * cin.grid[2]
CollageCells == 0..(CollageTotal - 1)
FullCall == cpc \in {"done", "raised"} /\ ~cin.masked
\* the tile the call leaves on cell c: its place in sorted_imgs
PlaceOf(c) ==
    LET cols == cin.grid[1]
        i == c \div cols
        j == c % cols
    IN  i * cols + (IF cin.rev /\ i % 2 = 1 THEN cols - 1 - j ELSE j) + 1

\* C14: make_collage on a full grid pads a short tile list with exactly
\* columns*rows - len transparent 'background' cells after the given tiles, and
\* cuts a long one to its first columns*rows tiles, reporting how many were
\* dropped; the painted sequence has exactly columns*rows tiles.
C14_PadsOrDropsToGrid ==
    FullCall =>
        LET given == cin.tiles
            kept == Min(Len(given), CollageTotal)
        IN  /\ cpc = "done"
            /\ Len(sorted_imgs) = CollageTotal
            /\ SubSeq(sorted_imgs, 1, kept) = SubSeq(given, 1, kept)
            /\ \A k \in (kept + 1)..CollageTotal : sorted_imgs[k] = Background
            /\ Len(given) < CollageTotal => note = <<"added", CollageTotal - Len(given)>>
            /\ Len(given) > CollageTotal => note = <<"dropped", Len(given) - CollageTotal>>
            /\ \A c \in CollageCells : combined_img[c] = sorted_imgs[PlaceOf(c)].px
            /\ Cardinality({c \in CollageCells : combined_img[c] = Transparent})
                    = CollageTotal - kept

\* a long list was cut and painted in serpentine order
C14_Witness ==
    /\ cpc = "done" /\ ~cin.masked /\ cin.rev
    /\ cin.grid = <<3, 2>>
    /\ Len(cin.tiles) = 8
    /\ note = <<"dropped", 2>>
\* a short list was padded
C14_WitnessPadded ==
    /\ cpc = "done" /\ ~cin.masked
    /\ cin.grid = <<2, 3>>
    /\ Len(cin.tiles) = 4
    /\ combined_img[4] = Transparent /\ combined_img[5] = Transparent

\* C15: the first line of the ledger is 'Grid dimension: (rows, cols)'.
C15_HeaderRowsThenCols ==
    cpc = "done" => info_text.dim = <<cin.grid[2], cin.grid[1]>>

\* C15, amended: the first line of the ledger is 'Grid dimension: ' followed by
\* the grid as the caller gave it, (columns, rows).
C15_HeaderColsThenRows ==
    cpc = "done" => info_text.dim = <<cin.grid[1], cin.grid[2]>>

\* a ledger was made for a grid of three columns and one row
C15_Witness ==
    /\ cpc = "done"
    /\ cin.grid = <<3, 1>>
    /\ info_text.dim = <<3, 1>>

\* the complete label of what the call left on cell c
LabelOn(c) ==
    IF combined_img[c] = Transparent THEN Background.info ELSE PoolTile(combined_img[c]).info

\* C16: after the first line the ledger lists exactly rows*cols labels in
\* row-major order, each the complete, untruncated label of the tile placed in
\* that cell, or the complete string 'background' for a cell without a tile, in
\* the full and in the masked composition.
C16_LedgerHasWholeLabels ==
    cpc = "done" =>
        /\ Len(info_text.labels) = CollageTotal
        /\ \A c \in CollageCells : info_text.labels[c + 1] = LabelOn(c)

\* asg is an assignment one pass over all rows can give the frequency-balanced
\* loop from row i on: each row takes the least of rank + indices_freq, whatever
\* order argsort gives equal distances
RECURSIVE OnePass(_, _, _)
OnePass(i, freq, asg) ==
    \/ i = Total
    \/ /\ asg[i] \in FreqPick(dest_img[i], freq, uin, ugrid)
       /\ OnePass(i + 1, [freq EXCEPT ![asg[i]] = @ + uin.freq_mul], asg)

ChunkedRun == UnfairStarted /\ ~uin.dither /\ row_stride >= 1

\* C17: for every metric and every stride >= 1 the chunked computation covers
\* every row exactly once, in order, and gives the distances and the chosen tiles
\* one pass without chunks gives.
C17_ChunkedEqualsOnePass ==
    /\ ChunkedRun =>
        /\ upc \notin {"raised", "spin"}
        /\ visited = [k \in 1..Len(visited) |-> k - 1]
        /\ upc \in {"f_unshuffle", "finish", "done"} => Len(visited) = Total
        /\ (upc \in {"finish", "done"} /\ uin.freq_mul = 0) =>
              \A k \in Blocks : assignment[k] = NearestPick(dest_img[k], uin, ugrid)
        /\ upc = "f_unshuffle" =>
              OnePass(0, [t \in Tiles |-> 0], assignment)
    /\ (kpc \in {"loop", "returned", "spin"} /\ k_stride >= 1) =>
        /\ kpc # "spin"
        /\ \A r \in KRows :
              IF kpc = "returned" \/ r < k_i
              THEN kwrites[r] = 1 /\ dist_mat[r] = KernelDistRow(kin, r)
              ELSE kwrites[r] = 0

\* a run without frequency balancing finished in three or more chunks
C17_Witness ==
    /\ upc = "done" /\ ~uin.dither /\ uin.freq_mul = 0
    /\ row_stride >= 1 /\ 2 * row_stride < Total
    /\ Len(visited) = Total
    /\ uin.keys = "own" /\ uin.dest = "mixed" /\ uin.num_tiles = 3
\* the kernel returned after three or more groups of rows
C17_WitnessKernel ==
    /\ kpc = "returned" /\ k_stride >= 1 /\ 2 * k_stride < kin.rows
\* a frequency-balanced run reached the end of its chunks, of two or more rows
C17_WitnessFreq ==
    /\ upc = "f_unshuffle" /\ row_stride >= 2 /\ row_stride < Total

\* C18: a negative freq_mul or a non-positive max_width is rejected as a
\* configuration error before any tile is read, any grid is sized and any
\* distance is computed.
C18_BadUnfairArgsRejectedFirst ==
    (mpc # "idle" /\ (args.freq_mul < 0 \/ args.max_width <= 0)) =>
        /\ mlog = <<>>
        /\ mpc \in {"start", "limit", "rejected"}

\* what the source does with them: a negative freq_mul is never refused
C18_NegativeFreqMulRuns ==
    /\ mpc = "done" /\ args.unfair /\ args.freq_mul < 0 /\ args.max_width > 0
    /\ mlog = <<"read_images", "grid", "cdist">>

BuiltUnfair == mpc \in {"built", "done"} /\ args.unfair
DitherAlone == mos.dither => ~mos.saliency /\ ~mos.transparent /\ ~mos.randomize

\* C19: when dithering is requested together with masking (saliency or
\* transparency) or with randomized order, the MosaicUnfair that is built has
\* dithering on and masking and randomization off; in every MosaicUnfair
\* dithering is never active together with masking or randomization.
C19_DitheringWins ==
    BuiltUnfair =>
        /\ (args.dither /\ (args.salient \/ args.transparent \/ ~args.deterministic)) =>
              mos.dither /\ ~mos.saliency /\ ~mos.transparent /\ ~mos.randomize
        /\ DitherAlone

\* C19, amended: when dithering is requested without transparency masking, the
\* MosaicUnfair that is built has dithering on and saliency masking and
\* randomization off; when it is requested with transparency masking, dithering
\* is turned off and transparency masking stays on; in every MosaicUnfair
\* dithering is never active together with masking or randomization.
C19_DitheringWinsButTransparency ==
    BuiltUnfair =>
        /\ (args.dither /\ ~args.transparent) =>
              mos.dither /\ ~mos.saliency /\ ~mos.transparent /\ ~mos.randomize
        /\ (args.dither /\ args.transparent) =>
              ~mos.dither /\ mos.transparent /\ ~mos.saliency
        /\ DitherAlone

\* dithering was asked for with saliency masking and a randomized order
C19_Witness ==
    /\ mpc = "built" /\ args.unfair
    /\ args.dither /\ args.salient /\ ~args.transparent /\ ~args.deterministic
    /\ mos.dither /\ ~mos.saliency /\ ~mos.randomize

\* C20: for a video computed by CPU worker processes the per-process LIMIT times
\* the number of worker processes is at most the configured mem_limit in bytes;
\* for a picture, or with the GPU, LIMIT is the whole mem_limit.
C20_LimitSharedByWorkers ==
    mpc \notin {"idle", "start"} =>
        IF args.video /\ ~args.gpu
        THEN LIMIT * NumProcess(args) <= args.mem_limit * MB
        ELSE LIMIT = args.mem_limit * MB

\* 7 MB shared by three workers: 2 MB each
C20_Witness ==
    /\ mpc = "limit"
    /\ args.video /\ ~args.gpu /\ args.num_process = 3 /\ args.mem_limit = 7
    /\ LIMIT = 2 * MB

\* C21: with 12 tile slots, tiles of 10x10 pixels and the ratio 4:3,
\* calc_grid_size returns the grid (4, 3): 12 cells, the mosaic ratio exactly
\* 4:3, no deviation.
C21_TwelveSlotsFourByThree ==
    (gpc \in {"returned", "raised"} /\ gin = TwelveSlots) =>
        /\ gpc = "returned"
        /\ grid = <<4, 3>>
        /\ grid[1] * grid[2] = 12
        /\ DevNum(GridRatio(grid[1], grid[2], gin.th, gin.tw).num,
                  GridRatio(grid[1], grid[2], gin.th, gin.tw).den, gin.rw, gin.rh) = 0

C21_Witness ==
    /\ gpc = "returned"
    /\ gin.num_imgs = 12 /\ gin.rw = 4 /\ gin.rh = 3 /\ gin.th = 10 /\ gin.tw = 10
    /\ grid[1] = 4

\* bw_f and bh_f before the loop, in 1/SalientDen
InitialBw == sin.width * sin.width * s_grid[2]
InitialBh == sin.height * s_grid[1] * sin.width
InShrinkLoop == spc \in {"loop", "mapped", "done"}

\* C22: in the block-shrink loop of the salient fair mosaic the deltas keep the
\* aspect ratio of the block: bw_delta / bh_delta is the initial block width /
\* block height, so bw_f / bh_f is the same at every pass, for a block wider than
\* tall and for a block taller than wide.
C22_ShrinkKeepsRatio ==
    InShrinkLoop =>
        /\ bw_delta * InitialBh = bh_delta * InitialBw
        /\ bw_f * InitialBh = bh_f * InitialBw

\* what holds: the ratio is kept when the block is not taller than wide
C22_WideKeepsRatio ==
    (InShrinkLoop /\ InitialBw >= InitialBh) =>
        /\ bw_delta * InitialBh = bh_delta * InitialBw
        /\ bw_f * InitialBh = bh_f * InitialBw

LoopExited == spc \in {"mapped", "done", "raised"} /\ s_block # <<0, 0>>
PoolResized == spc \in {"done", "raised"} /\ s_block # <<0, 0>>

\* C23: the block-shrink loop ends for every input; when it ends either the
\* number of selected cells is >= round(len(tiles) * dup), or the block has
\* bottomed out at 1x1 pixel with a warning and the smaller selection is used;
\* then the tile pool is resized to exactly the number of selected cells.
C23_ShrinkEndsAtOneByOne ==
    /\ s_iter <= Max(sin.height, sin.width)
    /\ LoopExited =>
          \/ s_count >= s_total /\ ~s_warned
          \/ s_warned /\ s_block = <<1, 1>>
    /\ PoolResized => Len(s_imgs) = s_count

\* C23, amended: the loop ends after at most max(height, width) passes; when it
\* ends either the number of selected cells is >= round(len(tiles) * dup), or a
\* side of the block has come down to 0 pixels, the warning is printed and that
\* side is set to 1 while the other side keeps its size; then the tile pool is
\* resized to exactly the number of selected cells.
C23_ShrinkEndsAtASideOfOne ==
    /\ s_iter <= Max(sin.height, sin.width)
    /\ LoopExited =>
          \/ s_count >= s_total /\ ~s_warned
          \/ s_warned /\ (s_block[1] = 1 \/ s_block[2] = 1) /\ s_block[1] >= 1 /\ s_block[2] >= 1
    /\ PoolResized => Len(s_imgs) = s_count

\* the loop shrank the block twice, gave up with fewer cells than tiles, and
\* the pool was cut to the cells
C23_Witness ==
    /\ spc = "done" /\ s_warned /\ s_iter >= 2
    /\ s_count >= 1 /\ s_count < s_total
    /\ Len(s_imgs) = s_count

\* C24: after compute_block_size, for every destination shape, grid and tile
\* shape, block_width <= tile width and block_height <= tile height.
C24_BlockWithinTile ==
    fpc \in {"ready", "done"} =>
        /\ block_size[1] <= fin.tw
        /\ block_size[2] <= fin.th

\* what holds instead: a block that exceeded the tile is scaled so that one of
\* its sides equals the tile's and the other is at least the tile's
C24_BlockCoversTile ==
    (fpc \in {"ready", "done"}
        /\ (Round(fin.dw, fgrid[1]) > fin.tw \/ Round(fin.dh, fgrid[2]) > fin.th)) =>
        /\ block_size[1] >= fin.tw
        /\ block_size[2] >= fin.th
        /\ block_size[1] = fin.tw \/ block_size[2] = fin.th

\* C25: every grid the planner paths produce (calc_grid_size, the max_width
\* grid of MosaicUnfair, the grid of the resized threshold map of the salient
\* fair mosaic) has columns >= 1 and rows >= 1, and every block size derived
\* from it has width >= 1 and height >= 1.
C25_GridsAndBlocksPositive ==
    /\ gpc = "returned" => grid[1] >= 1 /\ grid[2] >= 1
    /\ fpc \in {"ready", "done"} =>
          fgrid[1] >= 1 /\ fgrid[2] >= 1 /\ block_size[1] >= 1 /\ block_size[2] >= 1
    /\ upc \notin {"idle", "new"} =>
          /\ ugrid[1] >= 1 /\ ugrid[2] >= 1
          /\ upc # "init_raised" => ublock[1] >= 1 /\ ublock[2] >= 1
    /\ spc = "done" =>
          s_mosgrid[1] >= 1 /\ s_mosgrid[2] >= 1 /\ s_block[1] >= 1 /\ s_block[2] >= 1

NoChunkingReported ==
    UnfairStarted /\ ~uin.dither /\ ReportedStride(uin, ugrid, ublock) >= Total

\* C26: when the whole distance matrix fits under the memory ceiling (the row
\* stride computed is >= the number of destination rows, reported as 'No
\* chunking will be performed'), the unfair assignment computes the distances
\* in one pass over all rows: the loop is never back at its head with some rows
\* done and others left.
C26_NoChunkingIsOnePass ==
    (NoChunkingReported /\ upc \in {"p_head", "f_head"}) => (ui = 0 \/ ui >= Total)

\* what holds: one pass when the stride the loops use is >= the number of rows
C26_OnePassWhenStrideCovers ==
    (UnfairStarted /\ ~uin.dither /\ row_stride >= Total /\ upc \in {"p_head", "f_head"}) =>
        (ui = 0 \/ ui >= Total)

\* a step of a frequency-balanced loop that takes the tile of one block
FreqTakesOne == UnfairStarted /\ uin.freq_mul > 0 /\ Len(visited') = Len(visited) + 1
\* only the chosen tile's penalty grows, by freq_mul
PenaltyGrows(t) ==
    indices_freq' = [indices_freq EXCEPT ![t] = @ + uin.freq_mul]
\* the penalty of a tile is freq_mul times its uses for the blocks taken so far
PenaltyCountsUses ==
    (UnfairStarted /\ uin.freq_mul > 0 /\ upc # "raised") =>
        \A t \in Tiles :
            indices_freq[t] = uin.freq_mul
                * Cardinality({k \in 1..Len(visited) : assignment[visited[k]] = t})

\* C27: in the frequency-balanced pass the tile chosen for a block minimizes
\* (distance to the block + usage_count[tile] * freq_mul); after the choice only
\* the chosen tile's penalty grows, by exactly freq_mul.  (indices_freq is in
\* halves, the distance in 1/DitherUnit.)
C27_LeastDistancePlusPenalty ==
    [][FreqTakesOne =>
        LET c == JustTaken
            t == assignment'[c]
            dist == Dist(dest_img[c], uin, ugrid)
        IN  /\ \A t2 \in Tiles :
                  2 * dist[t] + indices_freq[t] * DitherUnit(ugrid)
                      <= 2 * dist[t2] + indices_freq[t2] * DitherUnit(ugrid)
            /\ PenaltyGrows(t)]_vars

\* C27, amended: the tile chosen for a block minimizes (rank of the tile among
\* all tiles by distance to the block, 0 for the nearest, + usage_count[tile] *
\* freq_mul); after the choice only the chosen tile's penalty grows, by exactly
\* freq_mul.
C27_LeastRankPlusPenalty ==
    [][FreqTakesOne =>
        LET c == JustTaken
            t == assignment'[c]
        IN  /\ \E r \in Rankings(Dist(dest_img[c], uin, ugrid), uin.num_tiles) :
                  \A t2 \in Tiles : 2 * r[t] + indices_freq[t] <= 2 * r[t2] + indices_freq[t2]
            /\ PenaltyGrows(t)]_vars

\* the nearest tile was passed over for one used less often
C27_Witness ==
    /\ UnfairStarted /\ uin.freq_mul > 0 /\ ~uin.dither /\ upc = "done"
    /\ \E k \in Blocks : assignment[k] # NearestPick(DestBlock(uin.dest, k) * DitherUnit(ugrid), uin, ugrid)

\* the blocks evaluated so far are the first blocks of the raster, in its
\* order, none left out (a block may be evaluated twice in a row: in a grid one
\* column wide the first and the last block of a row are the same block)
RasterOrder ==
    \A k \in 1..Len(visited) :
        IF k = 1 THEN visited[k] = 0 ELSE visited[k] \in {visited[k - 1], visited[k - 1] + 1}
\* a step of a dithering pass adds only to blocks that are evaluated later
AddsOnlyAhead ==
    \A k \in Blocks : AddedTo(k) # 0 => \A m \in 1..Len(visited') : visited'[m] # k
\* the step has spread the error e of block c with the four weights
SpreadsAs(c, e) ==
    /\ 16 * AddedTo(c + 1) = 7 * e
    /\ 16 * AddedTo(c + ugrid[1] - 1) = 3 * e
    /\ 16 * AddedTo(c + ugrid[1]) = 5 * e
    /\ 16 * AddedTo(c + ugrid[1] + 1) = e
InDitherPass == UnfairStarted /\ uin.dither /\ upc \notin {"raised", "done"}

\* C28: in the dithered pass blocks are evaluated in raster order; for a block
\* whose error is diffused, e = (chosen tile's vector - block vector) is added as
\* 7/16 e to the right, 3/16 e to the below-left, 5/16 e to the below and 1/16 e
\* to the below-right neighbour; every block is evaluated only after all
\* contributions from its left, upper-left, upper and upper-right neighbours
\* have been added to it.
C28_DiffusesTileMinusBlock ==
    [][InDitherPass =>
        /\ RasterOrder'
        /\ AddsOnlyAhead
        /\ (DitherTakesOne /\ dest_img' # dest_img) => SpreadsAs(JustTaken, 0 - ErrorOf(JustTaken))]_vars

\* C28, amended: the same, with the error e = (block vector, with what the
\* block has received - chosen tile's vector).
C28_DiffusesBlockMinusTile ==
    [][InDitherPass =>
        /\ RasterOrder'
        /\ AddsOnlyAhead
        /\ (DitherTakesOne /\ dest_img' # dest_img) => SpreadsAs(JustTaken, ErrorOf(JustTaken))]_vars

\* a dithered pass is over and a block that had received error was evaluated
C28_Witness ==
    /\ UnfairStarted /\ uin.dither /\ upc = "done"
    /\ Len(visited) = Total
    /\ \E k \in Blocks : dest_img[k] # DestBlock(uin.dest, k) * DitherUnit(ugrid)

\* a frequency-balanced pass over shuffled rows has returned its assignment
ShuffledReturned ==
    /\ UnfairStarted /\ uin.freq_mul > 0 /\ randomize
    /\ upc \in {"finish", "done"}
\* the m-th block visited is block indices[m] of the image
VisitsShuffled == \A m \in Blocks : dest_img[m] = DestBlock(uin.dest, indices[m]) * DitherUnit(ugrid)
UsedInAll(asg, t) == Cardinality({k \in Blocks : asg[k] = t})

\* C29: when the frequency-balanced pass randomizes the row order, the returned
\* assignment is mapped back through the same permutation: assignment[k] is the
\* tile chosen when block k was visited, and the usage count of every tile is
\* what it was before the mapping.
ReturnedAsVisited ==
    ShuffledReturned =>
        /\ VisitsShuffled
        /\ OnePass(0, [t \in Tiles |-> 0], [m \in Blocks |-> assignment[indices[m]]])
        /\ \A t \in Tiles : indices_freq[t] = uin.freq_mul * UsedInAll(assignment, t)
C29_MappedBackThroughShuffle ==
    [][/\ ReturnedAsVisited'
       /\ (upc = "f_unshuffle" /\ upc' = "finish") =>
              /\ \A m \in Blocks : assignment'[indices[m]] = assignment[m]
              /\ \A t \in Tiles : UsedInAll(assignment', t) = UsedInAll(assignment, t)]_vars

\* the rows were visited in an order that is not its own inverse and the blocks
\* did not all get the same tile
C29_Witness ==
    /\ ShuffledReturned /\ upc = "done"
    /\ \E m \in Blocks : indices[indices[m]] # m
    /\ \E k, m \in Blocks : assignment[k] # assignment[m]

\* both video paths have come to their end on a video no frame of which fails
BothPathsDone == vpc = "done" /\ seq_pc = "done" /\ vin.fails = {}
\* the index in a written file's name
IndexIn(path) == path[2][2]

\* C30: for the same video and skip_frame the sequential (GPU) path and the
\* multi-process (CPU) path process the same frames (positions 0, skip_frame,
\* 2*skip_frame, ... indexed 0, 1, 2, ...) and write the same set of output file
\* names, one per processed frame, the output path suffixed by the frame's index.
C30_BothPathsSameFiles ==
    BothPathsDone =>
        /\ {f.frame : f \in files} = Yielded(vin)
        /\ {f.frame : f \in seq_files} = Yielded(vin)
        /\ \A f \in files \cup seq_files : f.frame = IndexIn(f.path) * vin.skip_frame
        /\ {f.path : f \in files} = {f.path : f \in seq_files}

\* what holds: the same frames under the same indices, one file per frame
C30_BothPathsSameFrames ==
    BothPathsDone =>
        /\ {f.frame : f \in files} = Yielded(vin)
        /\ {f.frame : f \in seq_files} = Yielded(vin)
        /\ \A f \in files \cup seq_files : f.frame = IndexIn(f.path) * vin.skip_frame
        /\ Cardinality({f.path : f \in files}) = Cardinality(Yielded(vin))
        /\ Cardinality({f.path : f \in seq_files}) = Cardinality(Yielded(vin))

=============================================================================
